---- MODULE Spec2Model ----
(***************************************************************************)
(* Omniscope Workflow MCP server: configuration resolver (config.ts), the  *)
(* two upstream API clients (omniscope-client.ts, workflow-client.ts) and  *)
(* the session-scoped /mcp request router of the two server entry points.  *)
(*                                                                         *)
(* Strings are sequences of one-character strings, so that trimming,       *)
(* prefix matching and trailing-slash stripping are computed as the code   *)
(* computes them.                                                          *)
(***************************************************************************)
EXTENDS Integers, Sequences, FiniteSets, TLC

VARIABLES
    impl,        \* which of the two parallel implementations is running
    config,      \* ServerConfig returned by loadConfig at startup
    probe,       \* last direct application of a config.ts function
    call,        \* the client/tool invocation in progress, or Idle
    client,      \* the API client instance created for that invocation
    upstream,    \* upstream HTTP requests issued by that invocation
    outcome,     \* what the invocation returned or threw
    sessions,    \* the router's session table: session id -> context
    pairs,       \* every McpServer/transport pair created so far
    nextId,      \* the session id the next randomUUID() call yields
    everIds,     \* ids that have ever been keys of the session table
    inflight,    \* /mcp handlers suspended at `await server.connect`
    last,        \* what the last /mcp handler step did
    mcpBasic,    \* MCP_BASIC_USER / MCP_BASIC_PASS the process was started with
    gate,        \* what the basic-auth middleware did with the last request
    requests,    \* request() calls of the API client that have not settled
    settled,     \* how the request() call that settled last ended
    startup,     \* the server process: its environment and how far it has come
    healthProjectPath, \* OMNI_HEALTHCHECK_PROJECT_PATH as read at module load
    healthz,     \* the GET /healthz request being handled, or none
    currentJobId, \* task runner: the job the page tracks, or none
    pollTimer,   \* task runner: handle of the polling interval, or none
    executeBtn,  \* task runner: the Execute button
    cancelBtn,   \* task runner: the Cancel button
    intervals,   \* task runner: the interval timers the browser keeps running
    network,     \* task runner: fetches sent and not yet answered
    jobs,        \* scheduler: the jobs started so far and their status
    event        \* task runner: what the handler that ran last did

vars == <<impl, config, probe, call, client, upstream, outcome,
          sessions, pairs, nextId, everIds, inflight, last, mcpBasic, gate,
          requests, settled, startup, healthProjectPath, healthz,
          currentJobId, pollTimer, executeBtn, cancelBtn, intervals, network,
          jobs, event>>

configVars == <<probe>>
clientVars == <<call, client, upstream, outcome>>
routerVars == <<sessions, pairs, nextId, everIds, inflight, last>>
gateVars == <<mcpBasic, gate>>
requestVars == <<requests, settled>>
healthVars == <<healthProjectPath, healthz>>
runnerVars == <<currentJobId, pollTimer, executeBtn, cancelBtn, intervals, network,
                jobs, event>>

-----------------------------------------------------------------------------
(* Bounds *)

MaxPathLen == 3      \* longest project path string a caller supplies
MaxUpdates == 1      \* longest updates list a caller supplies
MaxPairs == 2        \* McpServer/transport pairs created in one run
MaxInflight == 1     \* /mcp handlers suspended at the same time
MaxCalls == 2        \* request() calls in flight at the same time
MaxTimeoutLen == 2   \* longest OMNI_TIMEOUT_MS string the process is started with
MaxJobs == 2         \* jobs the scheduler starts for the task runner page
MaxPolls == 2        \* status requests of one job in flight at the same time
MaxPosts == 2        \* execute requests in flight at the same time

-----------------------------------------------------------------------------
(* Strings *)

PathChars == {"/", "a", ".", " "}

SeqsUpTo(S, n) == UNION {[1..k -> S] : k \in 0..n}

Paths == SeqsUpTo(PathChars, MaxPathLen)

\* String.prototype.trim strips white space at both ends
IsSpace(c) == c = " "

RECURSIVE TrimStart(_)
TrimStart(s) ==
    IF s = <<>> THEN s
    ELSE IF IsSpace(Head(s)) THEN TrimStart(Tail(s)) ELSE s

RECURSIVE TrimEnd(_)
TrimEnd(s) ==
    IF s = <<>> THEN s
    ELSE IF IsSpace(s[Len(s)]) THEN TrimEnd(SubSeq(s, 1, Len(s) - 1)) ELSE s

Trim(s) == TrimEnd(TrimStart(s))

StartsWith(s, p) == Len(p) <= Len(s) /\ SubSeq(s, 1, Len(p)) = p

EndsWith(s, p) ==
    Len(p) <= Len(s) /\ SubSeq(s, Len(s) - Len(p) + 1, Len(s)) = p

Includes(s, sub) ==
    \E i \in 1..(Len(s) - Len(sub) + 1) : SubSeq(s, i, i + Len(sub) - 1) = sub

\* s.replace(/\/+$/, '')
RECURSIVE StripTrailingSlashes(_)
StripTrailingSlashes(s) ==
    IF s = <<>> THEN s
    ELSE IF s[Len(s)] = "/" THEN StripTrailingSlashes(SubSeq(s, 1, Len(s) - 1))
    ELSE s

-----------------------------------------------------------------------------
(* Results of functions that return or throw *)

Ok(v) == [ok |-> TRUE, value |-> v, error |-> "none"]
Err(e) == [ok |-> FALSE, value |-> <<>>, error |-> e]

-----------------------------------------------------------------------------
(* URLs: a base URL string is the host, the pathname and whether it has a  *)
(* fragment; values that are no URL are kept apart.                        *)

Url(h, p, f) == [kind |-> "url", host |-> h, path |-> p, hash |-> f]
NoUrl(k) == [kind |-> k, host |-> "", path |-> <<>>, hash |-> FALSE]
Undefined == NoUrl("undefined")
EmptyString == NoUrl("empty")
NotAUrl == NoUrl("invalid")

Hosts == {"h1", "h2"}
UrlPaths == { <<"/">>, <<"/", "p">>, <<"/", "p", "/">>, <<"/", "/">> }
UrlStrings == {Url(h, p, f) : h \in Hosts, p \in UrlPaths, f \in BOOLEAN}
RawUrls == UrlStrings \cup {Undefined, EmptyString, NotAUrl}

\* url.pathname = v: a special-scheme URL never has an empty pathname
SetPathname(v) == IF v = <<>> THEN <<"/">> ELSE v

normalizeBaseUrl(raw) ==
    IF raw.kind # "url" THEN Err("Invalid URL")
    ELSE LET pathname == IF EndsWith(raw.path, <<"/">>)
                         THEN SetPathname(StripTrailingSlashes(raw.path))
                         ELSE raw.path
         IN Ok(Url(raw.host, pathname, FALSE))

normalizePrefix(raw) ==
    LET trimmed == Trim(raw) IN
    IF trimmed = <<>> THEN Err("Empty project prefix")
    ELSE Ok(IF StartsWith(trimmed, <<"/">>) THEN trimmed ELSE <<"/">> \o trimmed)

-----------------------------------------------------------------------------
(* Environment variables and credentials *)

\* an environment variable or a header value: unset, or a string
Unset == [defined |-> FALSE, value |-> <<>>]
EnvString(v) == [defined |-> TRUE, value |-> v]
\* !value: undefined or the empty string
Falsy(e) == ~e.defined \/ e.value = <<>>

\* Buffer.from(text).toString("base64") and Buffer.from(b64, "base64").toString()
Base64(text) == [encoding |-> "base64", text |-> text]
FromBase64(encoded) == encoded.text
\* a header value that is used as it is
Plain(text) == [encoding |-> "plain", text |-> text]

\* `${username}:${password}`
Credentials(user, pass) == user \o <<":">> \o pass

-----------------------------------------------------------------------------
(* Environments the server is started in *)

BaseUrlEnvs == {Url("h1", <<"/">>, FALSE), Url("h1", <<"/", "p", "/">>, TRUE)}
AllowBaseUrlEnvs == { <<>>, <<Url("h2", <<"/", "/">>, FALSE)>> }
PrefixEnvs == { <<>>,
                << <<"/">> >>,
                << <<"a">> >>,
                << <<" ", "/", "a", "/">> >>,
                << <<"/", "a", "a">>, <<"/", "/">> >> }

NoAuthEnv ==
    [OMNI_BEARER_TOKEN |-> Unset, OMNI_BASIC_USERNAME |-> Unset,
     OMNI_BASIC_PASSWORD |-> Unset]
AuthEnvs ==
    {NoAuthEnv,
     [NoAuthEnv EXCEPT !.OMNI_BEARER_TOKEN = EnvString(<<"t", " ">>)],
     [NoAuthEnv EXCEPT !.OMNI_BEARER_TOKEN = EnvString(<<" ">>),
                       !.OMNI_BASIC_PASSWORD = EnvString(<<"a">>)],
     [NoAuthEnv EXCEPT !.OMNI_BASIC_USERNAME = EnvString(<<"u">>)],
     [NoAuthEnv EXCEPT !.OMNI_BASIC_USERNAME = EnvString(<<"u">>),
                       !.OMNI_BASIC_PASSWORD = EnvString(<<"a">>)],
     [NoAuthEnv EXCEPT !.OMNI_BEARER_TOKEN = EnvString(<<"t">>),
                       !.OMNI_BASIC_USERNAME = EnvString(<<"u">>),
                       !.OMNI_BASIC_PASSWORD = EnvString(<<"a">>)]}

\* the allow-lists are exercised without upstream credentials and with the
\* default timeout
Envs == [OMNI_BASE_URL : BaseUrlEnvs,
         OMNI_ALLOW_BASE_URLS : AllowBaseUrlEnvs,
         OMNI_ALLOWED_PROJECT_PREFIXES : PrefixEnvs,
         OMNI_TIMEOUT_MS : {Unset},
         auth : {NoAuthEnv}]

\* OMNI_TIMEOUT_MS values: digits, a sign, a letter, white space
TimeoutChars == {"0", "1", "-", "x", " "}
TimeoutStrings == SeqsUpTo(TimeoutChars, MaxTimeoutLen)
IsDigit(c) == c \in {"0", "1"}
DigitValue(c) == IF c = "1" THEN 1 ELSE 0

\* a number, or NaN
Number(n) == [nan |-> FALSE, value |-> n]
NaN == [nan |-> TRUE, value |-> 0]
\* Number.isFinite
IsFinite(x) == ~x.nan

RECURSIVE DigitPrefix(_)
DigitPrefix(str) ==
    IF str = <<>> \/ ~IsDigit(Head(str)) THEN <<>>
    ELSE <<Head(str)>> \o DigitPrefix(Tail(str))

RECURSIVE DecimalValue(_)
DecimalValue(digits) ==
    IF digits = <<>> THEN 0
    ELSE 10 * DecimalValue(SubSeq(digits, 1, Len(digits) - 1))
         + DigitValue(digits[Len(digits)])

\* Number.parseInt(str, 10): leading white space is skipped, a sign is read,
\* then the longest run of digits; what follows the digits is ignored
parseInt(str) ==
    LET unpadded == TrimStart(str)
        negative == unpadded # <<>> /\ Head(unpadded) = "-"
        digits == DigitPrefix(IF negative THEN Tail(unpadded) ELSE unpadded)
    IN IF digits = <<>> THEN NaN
       ELSE Number(IF negative THEN 0 - DecimalValue(digits) ELSE DecimalValue(digits))

DEFAULT_TIMEOUT_MS == 30000

\* [f(x) : x in the sequence s], keeping order
MapSeq(s, F(_)) == [i \in 1..Len(s) |-> F(s[i])]

RECURSIVE FilterNonEmpty(_)
FilterNonEmpty(s) ==
    IF s = <<>> THEN s
    ELSE IF Head(s) = <<>> THEN FilterNonEmpty(Tail(s))
    ELSE <<Head(s)>> \o FilterNonEmpty(Tail(s))

\* Array.from(new Set([first, ...rest])): insertion order, no repeats
RECURSIVE Dedupe(_)
Dedupe(s) ==
    IF s = <<>> THEN s
    ELSE LET front == Dedupe(SubSeq(s, 1, Len(s) - 1)) IN
         IF \E i \in 1..Len(front) : front[i] = s[Len(s)] THEN front
         ELSE Append(front, s[Len(s)])

PrefixValue(e) == normalizePrefix(e).value
UrlValue(u) == normalizeBaseUrl(u).value

\* value?.trim()
TrimIfSet(e) == IF e.defined THEN EnvString(Trim(e.value)) ELSE Unset

parseAuth(env) ==
    LET token == TrimIfSet(env.OMNI_BEARER_TOKEN)
        username == TrimIfSet(env.OMNI_BASIC_USERNAME)
        password == IF env.OMNI_BASIC_PASSWORD.defined
                    THEN env.OMNI_BASIC_PASSWORD.value ELSE <<>>
    IN IF ~Falsy(token)
       THEN [type |-> "bearer", token |-> token.value, username |-> <<>>, password |-> <<>>]
       ELSE IF ~Falsy(username)
       THEN [type |-> "basic", token |-> <<>>, username |-> username.value,
             password |-> password]
       ELSE [type |-> "none", token |-> <<>>, username |-> <<>>, password |-> <<>>]

loadConfig(env) ==
    IF env.OMNI_BASE_URL.kind \in {"undefined", "empty"}
    THEN Err("OMNI_BASE_URL environment variable is required")
    ELSE IF ~normalizeBaseUrl(env.OMNI_BASE_URL).ok THEN Err("Invalid URL")
    ELSE IF \E i \in 1..Len(env.OMNI_ALLOW_BASE_URLS) :
                ~normalizeBaseUrl(env.OMNI_ALLOW_BASE_URLS[i]).ok
    THEN Err("Invalid URL")
    ELSE LET defaultBaseUrl == UrlValue(env.OMNI_BASE_URL)
             entries == FilterNonEmpty(MapSeq(env.OMNI_ALLOWED_PROJECT_PREFIXES, Trim))
             timeoutRaw == env.OMNI_TIMEOUT_MS
             timeout == IF Falsy(timeoutRaw) THEN Number(DEFAULT_TIMEOUT_MS)
                        ELSE parseInt(timeoutRaw.value)
         IN IF ~IsFinite(timeout) \/ timeout.value <= 0
            THEN Err("Invalid OMNI_TIMEOUT_MS value")
            ELSE Ok([defaultBaseUrl |-> defaultBaseUrl,
                     allowedBaseUrls |->
                         Dedupe(<<defaultBaseUrl>> \o MapSeq(env.OMNI_ALLOW_BASE_URLS, UrlValue)),
                     allowedProjectPrefixes |-> MapSeq(entries, PrefixValue),
                     auth |-> parseAuth(env.auth),
                     requestTimeoutMs |-> timeout.value])

-----------------------------------------------------------------------------
(* config.ts: resolveBaseUrl and validateProjectPath *)

resolveBaseUrl_unchecked(cfg, requested) ==
    IF requested.kind \in {"undefined", "empty"} THEN Ok(cfg.defaultBaseUrl)
    ELSE normalizeBaseUrl(requested)

resolveBaseUrl(cfg, requested) ==
    IF requested.kind \in {"undefined", "empty"} THEN Ok(cfg.defaultBaseUrl)
    ELSE LET normalized == normalizeBaseUrl(requested) IN
         IF ~normalized.ok THEN Err("Invalid baseUrl provided")
         ELSE IF ~\E i \in 1..Len(cfg.allowedBaseUrls) :
                     cfg.allowedBaseUrls[i] = normalized.value
         THEN Err("Requested baseUrl is not in the allowed list")
         ELSE normalized

validateProjectPath_noDotDot(cfg, raw) ==
    LET trimmed == Trim(raw) IN
    IF trimmed = <<>> THEN Err("projectPath is required")
    ELSE IF ~StartsWith(trimmed, <<"/">>) THEN Err("projectPath must start with a /")
    ELSE IF Len(cfg.allowedProjectPrefixes) > 0
            /\ ~\E i \in 1..Len(cfg.allowedProjectPrefixes) :
                   StartsWith(trimmed, cfg.allowedProjectPrefixes[i])
    THEN Err("projectPath is not in the allowed prefixes")
    ELSE Ok(trimmed)

validateProjectPath_untrimmed(cfg, raw) ==
    LET trimmed == Trim(raw) IN
    IF trimmed = <<>> THEN Err("projectPath is required")
    ELSE IF ~StartsWith(trimmed, <<"/">>) THEN Err("projectPath must start with a /")
    ELSE IF Includes(trimmed, <<".", ".">>) THEN Err("projectPath cannot contain ..")
    ELSE IF Len(cfg.allowedProjectPrefixes) > 0
            /\ ~\E i \in 1..Len(cfg.allowedProjectPrefixes) :
                   StartsWith(trimmed, cfg.allowedProjectPrefixes[i])
    THEN Err("projectPath is not in the allowed prefixes")
    ELSE Ok(raw)

validateProjectPath(cfg, raw) ==
    LET trimmed == Trim(raw) IN
    IF trimmed = <<>> THEN Err("projectPath is required")
    ELSE IF ~StartsWith(trimmed, <<"/">>) THEN Err("projectPath must start with a /")
    ELSE IF Includes(trimmed, <<".", ".">>) THEN Err("projectPath cannot contain ..")
    ELSE IF Len(cfg.allowedProjectPrefixes) > 0
            /\ ~\E i \in 1..Len(cfg.allowedProjectPrefixes) :
                   StartsWith(trimmed, cfg.allowedProjectPrefixes[i])
    THEN Err("projectPath is not in the allowed prefixes")
    ELSE Ok(trimmed)

-----------------------------------------------------------------------------
(* The two parallel implementations *)

Omniscope == "omniscope"   \* index.ts + omniscope-client.ts, camelCase tools
Workflow == "workflow"     \* server.ts + workflow-tools.ts + workflow-client.ts
Impls == {Omniscope, Workflow}

LoadedConfigs == {loadConfig(env).value : env \in {e \in Envs : loadConfig(e).ok}}

\* the server process: module evaluation calls loadConfig() before app.listen
Starting(env) == [phase |-> "loading", env |-> env]
Listening(env) == [phase |-> "listening", env |-> env]
Exited(env) == [phase |-> "exited", env |-> env]

\* const config = loadConfig() has not run yet
Unloaded ==
    [defaultBaseUrl |-> Undefined, allowedBaseUrls |-> <<>>,
     allowedProjectPrefixes |-> <<>>,
     auth |-> [type |-> "none", token |-> <<>>, username |-> <<>>, password |-> <<>>],
     requestTimeoutMs |-> 0]

\* a process that came up under env
StartedUnder(env) ==
    /\ loadConfig(env).ok
    /\ config = loadConfig(env).value
    /\ startup = Listening(env)

InitProcess ==
    /\ impl \in Impls
    /\ \E env \in Envs : StartedUnder(env)

-----------------------------------------------------------------------------
(* Upstream API clients *)

ExecuteOp == "executeWorkflow"
LambdaOp == "lambdaExecuteWorkflow"
JobStateOp == "getJobState"
GetParamsOp == "getParameters"
UpdateOp == "updateParameters"
Ops == {ExecuteOp, LambdaOp, JobStateOp, GetParamsOp, UpdateOp}
MutatingOps == {ExecuteOp, LambdaOp, UpdateOp}

UpdateEntry == [name |-> "x", value |-> "v"]
UpdateLists == SeqsUpTo({UpdateEntry}, MaxUpdates)

NoClient == [created |-> FALSE, baseUrl |-> Undefined]
Client(url) == [created |-> TRUE, baseUrl |-> url]

NoPayload ==
    [keys |-> {}, dryRun |-> FALSE, projectPath |-> <<>>,
     baseUrl |-> Undefined, updates |-> <<>>]

Outcome(k, e, p) == [kind |-> k, error |-> e, payload |-> p]
NoOutcome == Outcome("none", "none", NoPayload)
Thrown(e) == Outcome("error", e, NoPayload)
Pending == Outcome("pending", "none", NoPayload)

\* optional arguments of execute and lambda-execute, and what a caller may
\* put there: nothing (undefined), null, or a value of the declared type
OptionalFields ==
    {"blocks", "refreshFromSource", "cancelExisting", "params", "deleteExecutionOnFinish"}
LambdaOnlyFields == {"params", "deleteExecutionOnFinish"}
ValuesOf(field) ==
    {"undefined", "null"} \cup
        (IF field = "blocks" THEN {"[]", "[b]"}
         ELSE IF field = "params" THEN {"{}", "{k}"}
         ELSE {"false", "true"})
NoOptionals == [f \in OptionalFields |-> "undefined"]
\* if (value): arrays and objects are truthy, empty ones as well
Truthy(v) == v \notin {"undefined", "null", "false"}
\* typeof value === 'boolean'
IsBoolean(v) == v \in {"false", "true"}

\* const body = {}; body.key = value
EmptyObject == [k \in {} |-> "undefined"]
Assign(obj, k, v) == [x \in DOMAIN obj \cup {k} |-> IF x = k THEN v ELSE obj[x]]
AssignIf(cond, obj, k, v) == IF cond THEN Assign(obj, k, v) ELSE obj
\* JSON.stringify(obj): a key whose value is undefined is left out, a key
\* whose value is null is written
JSON_stringify(obj) == [k \in {x \in DOMAIN obj : obj[x] # "undefined"} |-> obj[k]]

\* the init argument of fetch: no body, or the JSON text
NoBody == [sent |-> FALSE, json |-> EmptyObject]
Body(json) == [sent |-> TRUE, json |-> json]

OmniscopeClient_executeBody(args) ==
    LET b1 == AssignIf(Truthy(args.blocks), EmptyObject, "blocks", args.blocks)
        b2 == AssignIf(IsBoolean(args.refreshFromSource), b1,
                       "refreshFromSource", args.refreshFromSource)
    IN AssignIf(IsBoolean(args.cancelExisting), b2, "cancelExisting", args.cancelExisting)

OmniscopeClient_lambdaBody(args) ==
    LET b3 == OmniscopeClient_executeBody(args)
        b4 == AssignIf(IsBoolean(args.deleteExecutionOnFinish), b3,
                       "deleteExecutionOnFinish", args.deleteExecutionOnFinish)
    IN AssignIf(Truthy(args.params), b4, "params", args.params)

WorkflowClient_executeBody(args) ==
    LET b1 == AssignIf(Truthy(args.blocks), EmptyObject, "blocks", args.blocks)
        b2 == AssignIf(args.refreshFromSource # "undefined", b1,
                       "refreshFromSource", args.refreshFromSource)
    IN AssignIf(args.cancelExisting # "undefined", b2, "cancelExisting", args.cancelExisting)

\* a body that always states the flags, false when the caller left them out
WorkflowClient_lambdaBody_defaults(args) ==
    LET b3 == WorkflowClient_executeBody(args)
        b4 == Assign(b3, "deleteExecutionOnFinish",
                     IF args.deleteExecutionOnFinish = "undefined" THEN "false"
                     ELSE args.deleteExecutionOnFinish)
    IN AssignIf(Truthy(args.params), b4, "params", args.params)

WorkflowClient_lambdaBody(args) ==
    LET b3 == WorkflowClient_executeBody(args)
        b4 == AssignIf(args.deleteExecutionOnFinish # "undefined", b3,
                       "deleteExecutionOnFinish", args.deleteExecutionOnFinish)
    IN AssignIf(Truthy(args.params), b4, "params", args.params)

\* what a client operation does before it first awaits
Effect(reqs, out) == [upstream |-> reqs, outcome |-> out]
Throws(e) == Effect(<<>>, Thrown(e))

\* a request() that calls fetch again when the first call failed
Fetch_retried(method, url, body) ==
    Effect(<<[method |-> method, url |-> url, body |-> body],
             [method |-> method, url |-> url, body |-> body]>>, Pending)

\* return this.request(url, init): one fetch
Fetch(method, url, body) ==
    Effect(<<[method |-> method, url |-> url, body |-> body]>>, Pending)

PreviewWithBaseUrl(p, cl) ==
    Effect(<<>>, Outcome("preview", "none",
        [keys |-> {"dryRun", "projectPath", "baseUrl"}, dryRun |-> TRUE,
         projectPath |-> p, baseUrl |-> cl.baseUrl, updates |-> <<>>]))

\* `${baseUrl}${sanitized}${suffix}`
OmniscopeClient_buildUrl(cl, projectPath, suffix) ==
    LET sanitized == IF EndsWith(projectPath, <<"/">>)
                     THEN StripTrailingSlashes(projectPath)
                     ELSE projectPath
    IN [host |-> cl.baseUrl.host, base |-> cl.baseUrl.path,
        projectPath |-> sanitized, suffix |-> suffix]

\* `${base}${clean}${suffix}`
WorkflowClient_buildUrl(cl, projectPath, suffix) ==
    LET base == StripTrailingSlashes(cl.baseUrl.path)
        withLeading == IF StartsWith(projectPath, <<"/">>)
                       THEN projectPath
                       ELSE <<"/">> \o projectPath
        clean == StripTrailingSlashes(withLeading)
    IN [host |-> cl.baseUrl.host, base |-> base,
        projectPath |-> clean, suffix |-> suffix]

OmniscopeClient_executeWorkflow_noDryRun(cfg, cl, args) ==
    LET p == validateProjectPath(cfg, args.projectPath) IN
    IF ~p.ok THEN Throws(p.error)
    ELSE Fetch("POST", OmniscopeClient_buildUrl(cl, p.value, "/w/execute"),
               Body(JSON_stringify(OmniscopeClient_executeBody(args.optional))))

OmniscopeClient_executeWorkflow(cfg, cl, args) ==
    LET p == validateProjectPath(cfg, args.projectPath) IN
    IF ~p.ok THEN Throws(p.error)
    ELSE IF args.dryRun THEN PreviewWithBaseUrl(p.value, cl)
    ELSE Fetch("POST", OmniscopeClient_buildUrl(cl, p.value, "/w/execute"),
               Body(JSON_stringify(OmniscopeClient_executeBody(args.optional))))

OmniscopeClient_lambdaExecuteWorkflow(cfg, cl, args) ==
    LET p == validateProjectPath(cfg, args.projectPath) IN
    IF ~p.ok THEN Throws(p.error)
    ELSE IF args.dryRun THEN PreviewWithBaseUrl(p.value, cl)
    ELSE Fetch("POST", OmniscopeClient_buildUrl(cl, p.value, "/w/lambda/execute"),
               Body(JSON_stringify(OmniscopeClient_lambdaBody(args.optional))))

OmniscopeClient_getJobState(cfg, cl, args) ==
    LET p == validateProjectPath(cfg, args.projectPath) IN
    IF ~p.ok THEN Throws(p.error)
    ELSE Fetch("GET", OmniscopeClient_buildUrl(cl, p.value, "/w/job/{jobId}/state"),
               NoBody)

OmniscopeClient_getParameters(cfg, cl, args) ==
    LET p == validateProjectPath(cfg, args.projectPath) IN
    IF ~p.ok THEN Throws(p.error)
    ELSE Fetch("GET", OmniscopeClient_buildUrl(cl, p.value, "/w/param"),
               NoBody)

OmniscopeClient_updateParameters(cfg, cl, args) ==
    LET p == validateProjectPath(cfg, args.projectPath) IN
    IF ~p.ok THEN Throws(p.error)
    ELSE IF args.dryRun
    THEN Effect(<<>>, Outcome("preview", "none",
            [keys |-> {"dryRun", "projectPath", "baseUrl", "updates"}, dryRun |-> TRUE,
             projectPath |-> p.value, baseUrl |-> cl.baseUrl, updates |-> args.updates]))
    ELSE IF Len(args.updates) = 0
    THEN Throws("updates array must contain at least one entry")
    ELSE Fetch("POST", OmniscopeClient_buildUrl(cl, p.value, "/w/updateparams"),
               Body([updates |-> args.updates]))

WorkflowClient_executeWorkflow(cfg, cl, args) ==
    LET p == validateProjectPath(cfg, args.projectPath) IN
    IF ~p.ok THEN Throws(p.error)
    ELSE IF args.dryRun THEN PreviewWithBaseUrl(p.value, cl)
    ELSE Fetch("POST", WorkflowClient_buildUrl(cl, p.value, "/w/execute"),
               Body(JSON_stringify(WorkflowClient_executeBody(args.optional))))

WorkflowClient_lambdaExecuteWorkflow_dryRunFirst(cfg, cl, args) ==
    LET p == validateProjectPath(cfg, args.projectPath) IN
    IF args.dryRun THEN PreviewWithBaseUrl(Trim(args.projectPath), cl)
    ELSE IF ~p.ok THEN Throws(p.error)
    ELSE Fetch("POST", WorkflowClient_buildUrl(cl, p.value, "/w/lambda/execute"),
               Body(JSON_stringify(WorkflowClient_lambdaBody(args.optional))))

WorkflowClient_lambdaExecuteWorkflow(cfg, cl, args) ==
    LET p == validateProjectPath(cfg, args.projectPath) IN
    IF ~p.ok THEN Throws(p.error)
    ELSE IF args.dryRun THEN PreviewWithBaseUrl(p.value, cl)
    ELSE Fetch("POST", WorkflowClient_buildUrl(cl, p.value, "/w/lambda/execute"),
               Body(JSON_stringify(WorkflowClient_lambdaBody(args.optional))))

WorkflowClient_getJobState(cfg, cl, args) ==
    LET p == validateProjectPath(cfg, args.projectPath) IN
    IF ~p.ok THEN Throws(p.error)
    ELSE Fetch("GET", WorkflowClient_buildUrl(cl, p.value, "/w/job/{jobId}/state"),
               NoBody)

WorkflowClient_getParameters(cfg, cl, args) ==
    LET p == validateProjectPath(cfg, args.projectPath) IN
    IF ~p.ok THEN Throws(p.error)
    ELSE Fetch("GET", WorkflowClient_buildUrl(cl, p.value, "/w/param"),
               NoBody)

WorkflowClient_updateParameters(cfg, cl, args) ==
    LET p == validateProjectPath(cfg, args.projectPath) IN
    IF ~p.ok THEN Throws(p.error)
    ELSE IF args.dryRun
    THEN Effect(<<>>, Outcome("preview", "none",
            [keys |-> {"dryRun", "projectPath", "updates"}, dryRun |-> TRUE,
             projectPath |-> p.value, baseUrl |-> Undefined, updates |-> args.updates]))
    ELSE Fetch("POST", WorkflowClient_buildUrl(cl, p.value, "/w/updateparams"),
               Body([updates |-> args.updates]))

ClientOperation(im, cfg, cl, args) ==
    IF im = Omniscope
    THEN CASE args.op = ExecuteOp -> OmniscopeClient_executeWorkflow(cfg, cl, args)
           [] args.op = LambdaOp -> OmniscopeClient_lambdaExecuteWorkflow(cfg, cl, args)
           [] args.op = JobStateOp -> OmniscopeClient_getJobState(cfg, cl, args)
           [] args.op = GetParamsOp -> OmniscopeClient_getParameters(cfg, cl, args)
           [] args.op = UpdateOp -> OmniscopeClient_updateParameters(cfg, cl, args)
    ELSE CASE args.op = ExecuteOp -> WorkflowClient_executeWorkflow(cfg, cl, args)
           [] args.op = LambdaOp -> WorkflowClient_lambdaExecuteWorkflow(cfg, cl, args)
           [] args.op = JobStateOp -> WorkflowClient_getJobState(cfg, cl, args)
           [] args.op = GetParamsOp -> WorkflowClient_getParameters(cfg, cl, args)
           [] args.op = UpdateOp -> WorkflowClient_updateParameters(cfg, cl, args)

\* createClient(config, baseUrl?) / createWorkflowClient(config)
createClient(cfg, baseUrl) == resolveBaseUrl(cfg, baseUrl)
createWorkflowClient(cfg) == resolveBaseUrl(cfg, Undefined)

CreateFor(im, cfg, args) ==
    IF im = Omniscope THEN createClient(cfg, args.baseUrl) ELSE createWorkflowClient(cfg)

-----------------------------------------------------------------------------
(* Direct applications of the config.ts functions *)

NoProbe == [fn |-> "none", path |-> <<>>, requested |-> Undefined, result |-> Ok(<<>>)]

ApplyValidateProjectPath ==
    /\ probe = NoProbe
    /\ \E raw \in Paths :
          probe' = [fn |-> "validateProjectPath", path |-> raw, requested |-> Undefined,
                    result |-> validateProjectPath(config, raw)]
    /\ UNCHANGED <<impl, config, startup, healthVars, runnerVars, requestVars, gateVars, clientVars, routerVars>>

ApplyResolveBaseUrl ==
    /\ probe = NoProbe
    /\ \E requested \in RawUrls :
          probe' = [fn |-> "resolveBaseUrl", path |-> <<>>, requested |-> requested,
                    result |-> resolveBaseUrl(config, requested)]
    /\ UNCHANGED <<impl, config, startup, healthVars, runnerVars, requestVars, gateVars, clientVars, routerVars>>

\* the caller has consumed the result
Forget ==
    /\ probe # NoProbe
    /\ probe' = NoProbe
    /\ UNCHANGED <<impl, config, startup, healthVars, runnerVars, requestVars, gateVars, clientVars, routerVars>>

-----------------------------------------------------------------------------
(* Startup: const config = loadConfig() at module evaluation *)

\* environments a process may be started in
StartupEnvs ==
    [OMNI_BASE_URL : {Undefined, EmptyString, NotAUrl, Url("h1", <<"/">>, FALSE)},
     OMNI_ALLOW_BASE_URLS : {<<>>},
     OMNI_ALLOWED_PROJECT_PREFIXES : {<<>>},
     OMNI_TIMEOUT_MS : {Unset} \cup {EnvString(t) : t \in TimeoutStrings},
     auth : {NoAuthEnv}]

\* loadConfig() returns and the module goes on to app.listen, or it throws
\* and the uncaught exception ends the process
boot(env) ==
    LET loaded == loadConfig(env) IN
    IF loaded.ok THEN [config |-> loaded.value, startup |-> Listening(env)]
    ELSE [config |-> Unloaded, startup |-> Exited(env)]

LoadConfig ==
    /\ startup.phase = "loading"
    /\ config' = boot(startup.env).config
    /\ startup' = boot(startup.env).startup
    /\ UNCHANGED <<impl, healthVars, runnerVars, requestVars, gateVars, configVars,
                   clientVars, routerVars>>

\* a request is served: its project path or base URL goes through the config
Serve ==
    /\ startup.phase = "listening"
    /\ ApplyValidateProjectPath \/ ApplyResolveBaseUrl \/ Forget

-----------------------------------------------------------------------------
(* Tool and client invocations *)

\* how the arguments of a tool call stand to the declared input shape: as
\* declared, a required field left out, or a field of the wrong type
ArgShapes == {"asDeclared", "missingRequired", "wrongType"}

Idle ==
    [via |-> "none", op |-> "none", shape |-> "asDeclared", projectPath |-> <<>>,
     dryRun |-> FALSE, updates |-> <<>>, baseUrl |-> Undefined,
     optional |-> NoOptionals]

\* base URL overrides a caller may ask for
RequestedUrls ==
    {Undefined, EmptyString, NotAUrl,
     Url("h2", <<"/">>, TRUE), Url("h2", <<"/", "p">>, FALSE)}

Calls(im, via) ==
    {[via |-> via, op |-> op, shape |-> "asDeclared", projectPath |-> path,
      dryRun |-> dry, updates |-> ups, baseUrl |-> url, optional |-> NoOptionals] :
        op \in Ops, path \in Paths, dry \in BOOLEAN, ups \in UpdateLists,
        url \in RequestedUrls}

\* tool calls whose arguments are not of the declared shape
MisshapedCalls ==
    {[via |-> "tool", op |-> op, shape |-> shape, projectPath |-> <<>>,
      dryRun |-> FALSE, updates |-> <<>>, baseUrl |-> Undefined,
      optional |-> NoOptionals] :
        op \in Ops, shape \in ArgShapes \ {"asDeclared"}}

\* execute and lambda-execute tool calls with their optional arguments; the
\* fields of the lambda tool only are no part of the execute tool's input
BodyPath == <<"/", "a">>
OptionalArgs ==
    {o \in [OptionalFields -> UNION {ValuesOf(f) : f \in OptionalFields}] :
        \A f \in OptionalFields : o[f] \in ValuesOf(f)}
BodyCalls ==
    {c \in {[via |-> "tool", op |-> op, shape |-> "asDeclared", projectPath |-> BodyPath,
             dryRun |-> FALSE, updates |-> <<>>, baseUrl |-> Undefined,
             optional |-> opt] : op \in {ExecuteOp, LambdaOp}, opt \in OptionalArgs} :
        c.op = ExecuteOp => \A f \in LambdaOnlyFields : c.optional[f] = "undefined"}

\* arguments that differ only in a field the operation never reads are one call
Meaningful(im, c) ==
    /\ c.op \notin MutatingOps => ~c.dryRun
    /\ c.op # UpdateOp => c.updates = <<>>
    /\ im = Workflow => c.baseUrl = Undefined
    \* TypeScript types the arguments of a direct call; of arguments that are
    \* not of the declared shape nothing else is read
    /\ c.via = "client" => c.shape = "asDeclared"
    \* the direct caller, /healthz, asks for no base URL: createClient(config)
    /\ c.via = "client" => c.baseUrl = Undefined
    /\ c.shape # "asDeclared" =>
          /\ c.projectPath = <<>>
          /\ ~c.dryRun
          /\ c.updates = <<>>
          /\ c.baseUrl = Undefined

\* zod input shapes: baseUrl is z.string().url().optional() in the camelCase
\* tools and no field of the snake_case tools; updates is .min(1) in both
inputSchemaAccepts_noMin(im, c) ==
    /\ c.shape = "asDeclared"
    /\ \A f \in OptionalFields : c.optional[f] # "null"
    /\ im = Omniscope => c.baseUrl.kind \in {"undefined", "url"}

\* .optional() admits undefined and not null
inputSchemaAccepts(im, c) ==
    /\ c.shape = "asDeclared"
    /\ \A f \in OptionalFields : c.optional[f] # "null"
    /\ im = Omniscope => c.baseUrl.kind \in {"undefined", "url"}
    /\ c.op = UpdateOp => Len(c.updates) >= 1

Invocation(im, cfg, c) ==
    LET created == CreateFor(im, cfg, c) IN
    IF ~created.ok
    THEN [client |-> NoClient, upstream |-> <<>>, outcome |-> Thrown(created.error)]
    ELSE LET effect == ClientOperation(im, cfg, Client(created.value), c)
         IN [client |-> Client(created.value), upstream |-> effect.upstream,
             outcome |-> effect.outcome]

\* the McpServer checks the arguments against the input shape and runs the
\* registered tool handler if they pass
RunTool(c) ==
    /\ call' = c
    /\ IF ~inputSchemaAccepts(impl, c)
       THEN /\ client' = NoClient
            /\ upstream' = <<>>
            /\ outcome' = Outcome("schemaError", "Invalid arguments", NoPayload)
       ELSE LET r == Invocation(impl, config, c) IN
            /\ client' = r.client
            /\ upstream' = r.upstream
            /\ outcome' = r.outcome

ToolCall ==
    /\ call = Idle
    /\ \/ \E c \in Calls(impl, "tool") : Meaningful(impl, c) /\ RunTool(c)
       \/ \E c \in MisshapedCalls : RunTool(c)
    /\ UNCHANGED <<impl, config, startup, healthVars, runnerVars, requestVars, gateVars, configVars, routerVars>>

\* an execute or lambda-execute tool call with optional arguments
ExecuteToolCall ==
    /\ call = Idle
    /\ \E c \in BodyCalls : RunTool(c)
    /\ UNCHANGED <<impl, config, startup, healthVars, runnerVars, requestVars, gateVars, configVars, routerVars>>

\* the exported client used directly, as /healthz does
ClientCall ==
    /\ call = Idle
    /\ \E c \in Calls(impl, "client") :
         /\ Meaningful(impl, c)
         /\ call' = c
         /\ LET r == Invocation(impl, config, c) IN
            /\ client' = r.client
            /\ upstream' = r.upstream
            /\ outcome' = r.outcome
    /\ UNCHANGED <<impl, config, startup, healthVars, runnerVars, requestVars, gateVars, configVars, routerVars>>

\* how the one fetch of request() may end: a success response, a non-success
\* status, or the abort by the timer
FetchEndings == {"result", "HttpError", "AbortError"}

\* fetch settles and the awaiting operation resumes: request() returns the
\* parsed body or throws, and the operation hands that on
UpstreamResponds ==
    /\ outcome.kind = "pending"
    /\ \E ending \in FetchEndings :
         outcome' = IF ending = "result" THEN Outcome("result", "none", NoPayload)
                    ELSE Thrown(ending)
    /\ UNCHANGED <<impl, config, startup, healthVars, runnerVars, requestVars, gateVars, configVars, call, client, upstream, routerVars>>

\* the invocation is over; nothing of it is kept
Return ==
    /\ call # Idle
    /\ outcome.kind # "pending"
    /\ call' = Idle
    /\ client' = NoClient
    /\ upstream' = <<>>
    /\ outcome' = NoOutcome
    /\ UNCHANGED <<impl, config, startup, healthVars, runnerVars, requestVars, gateVars, configVars, routerVars>>

-----------------------------------------------------------------------------
(* GET /healthz (index.ts only) *)

\* no /healthz request is being handled
NoHealthz == [phase |-> "idle", status |-> 0, body |-> "none"]

HealthPaths == {Unset} \cup {EnvString(path) : path \in Paths}

\* if (!healthProjectPath)
healthCheckConfigured_whenDefined(path) == path.defined

healthCheckConfigured(path) == ~Falsy(path)

\* server.ts registers no /healthz route: the framework answers 404
hasHealthz(im) == im = Omniscope

Awaiting == [phase |-> "awaiting", status |-> 0, body |-> "none"]
Answered(status, body) == [phase |-> "responded", status |-> status, body |-> body]
\* res.json({ status: 'ok', message: 'No health check project configured' })
StaticOk == Answered(200, "ok: No health check project configured")
\* res.json({ status: 'ok' })
ReadOk == Answered(200, "ok")
\* res.status(500).json({ status: 'error', message })
ReadFailed == Answered(500, "error")

\* client.getParameters({ projectPath: healthProjectPath })
HealthRead(path) ==
    [via |-> "client", op |-> GetParamsOp, shape |-> "asDeclared",
     projectPath |-> path.value, dryRun |-> FALSE, updates |-> <<>>,
     baseUrl |-> Undefined, optional |-> NoOptionals]

\* the handler up to its response or to `await client.getParameters(...)`
HealthzRequest ==
    /\ healthz = NoHealthz
    /\ call = Idle
    /\ IF ~hasHealthz(impl)
       THEN /\ healthz' = Answered(404, "none")
            /\ UNCHANGED clientVars
       ELSE IF ~healthCheckConfigured(healthProjectPath)
       THEN /\ healthz' = StaticOk
            /\ UNCHANGED clientVars
       ELSE LET c == HealthRead(healthProjectPath)
                r == Invocation(impl, config, c)
            IN /\ call' = c
               /\ client' = r.client
               /\ upstream' = r.upstream
               /\ outcome' = r.outcome
               /\ healthz' = IF r.outcome.kind = "pending" THEN Awaiting ELSE ReadFailed
    /\ UNCHANGED <<impl, config, startup, healthProjectPath, runnerVars, requestVars,
                   gateVars, configVars, routerVars>>

\* request() settles and the handler resumes after the await
HealthzReadSettles ==
    /\ healthz = Awaiting
    /\ outcome.kind = "pending"
    /\ \E ending \in FetchEndings :
         /\ outcome' = IF ending = "result" THEN Outcome("result", "none", NoPayload)
                       ELSE Thrown(ending)
         /\ healthz' = IF ending = "result" THEN ReadOk ELSE ReadFailed
    /\ UNCHANGED <<impl, config, startup, healthProjectPath, runnerVars, requestVars,
                   gateVars, configVars, call, client, upstream, routerVars>>

\* the response is out; the handler keeps nothing
HealthzDone ==
    /\ healthz.phase = "responded"
    /\ healthz' = NoHealthz
    /\ call' = Idle
    /\ client' = NoClient
    /\ upstream' = <<>>
    /\ outcome' = NoOutcome
    /\ UNCHANGED <<impl, config, startup, healthProjectPath, runnerVars, requestVars,
                   gateVars, configVars, routerVars>>

-----------------------------------------------------------------------------
(* Session-scoped request router: app.all('/mcp') of both entry points and  *)
(* the StreamableHTTPServerTransport callbacks it registers                 *)

NoSessionId == 0               \* no mcp-session-id header / transport.sessionId unset
BogusId == MaxPairs + 1        \* an id no transport ever generated

\* a request: HTTP method, JSON-RPC body, mcp-session-id header, and whether
\* the transport finds its headers acceptable
Requests ==
    {[method |-> "POST", body |-> b, sid |-> i, acceptable |-> a] :
        b \in {"initialize", "initializeLike", "call"},
        i \in 0..(MaxPairs + 1), a \in BOOLEAN}
    \cup {[method |-> m, body |-> "none", sid |-> i, acceptable |-> TRUE] :
        m \in {"GET", "DELETE"}, i \in 0..(MaxPairs + 1)}

\* ids a client can hold: none, one it was given, or one it made up
Sendable(req) == req.sid \in {NoSessionId, BogusId} \cup everIds

\* index.ts: req.method === 'POST' && isInitializeRequest(req.body)
\* server.ts: req.method === "POST" && req.body.method === "initialize"
isInit(im, req) ==
    /\ req.method = "POST"
    /\ IF im = Omniscope THEN req.body = "initialize"
       ELSE req.body \in {"initialize", "initializeLike"}

EmptyTable == [i \in {} |-> 0]
Context(p) == [server |-> p, transport |-> p]
Put(tbl, id, ctx) == [k \in DOMAIN tbl \cup {id} |-> IF k = id THEN ctx ELSE tbl[k]]
Remove(tbl, id) == [k \in DOMAIN tbl \ {id} |-> tbl[k]]
Lookup(tbl, id) == id # NoSessionId /\ id \in DOMAIN tbl

\* closes counts the calls of close() on the McpServer of the pair
NewPair == [sessionId |-> NoSessionId, initialized |-> FALSE,
            connected |-> FALSE, closed |-> FALSE, closes |-> 0]

UnknownSessionCode == 0 - 32004
InvalidRequestCode == 0 - 32000
Response(who, status, code) == [from |-> who, status |-> status, code |-> code, id |-> "null"]
\* the SDK transport writes its own error bodies; their codes are not the router's
TransportError(status) == Response("transport", status, 0)
Success == [from |-> "transport", status |-> 200, code |-> 0, id |-> "request"]
NoResponse == [from |-> "none", status |-> 0, code |-> 0, id |-> "none"]
InternalErrorCode == 0 - 32603
\* the catch block of the handler: res.status(500).json({... code: -32603 ...})
InternalError == Response("router", 500, InternalErrorCode)

\* sessionIdGenerator: () => randomUUID()
sessionIdGenerator_reused(n) == 1

sessionIdGenerator(n) == n

\* disposeSession(id): drop the table entry, then close the bound McpServer
disposeSession_keepsEntry(tbl, prs, id) ==
    IF ~Lookup(tbl, id) THEN [sessions |-> tbl, pairs |-> prs]
    ELSE [sessions |-> tbl,
          pairs |-> [prs EXCEPT ![tbl[id].server].closed = TRUE,
                                ![tbl[id].server].closes = @ + 1]]

disposeSession_neverCloses(tbl, prs, id) ==
    IF ~Lookup(tbl, id) THEN [sessions |-> tbl, pairs |-> prs]
    ELSE [sessions |-> Remove(tbl, id), pairs |-> prs]

\* a disposeSession that deletes the entry after `await server.close()`: the
\* calls made while close() runs still find the entry and close again
disposeSession_deletesAfterClose(tbl, prs, id) ==
    IF Lookup(tbl, id)
    THEN [sessions |-> Remove(tbl, id),
          pairs |-> [prs EXCEPT ![tbl[id].server].closed = TRUE,
                                ![tbl[id].server].closes = @ + 1]]
    ELSE [sessions |-> tbl,
          pairs |-> [p \in DOMAIN prs |->
                        IF prs[p].closed /\ prs[p].sessionId = id
                        THEN [prs[p] EXCEPT !.closes = @ + 1] ELSE prs[p]]]

disposeSession(tbl, prs, id) ==
    IF ~Lookup(tbl, id) THEN [sessions |-> tbl, pairs |-> prs]
    ELSE [sessions |-> Remove(tbl, id),
          pairs |-> [prs EXCEPT ![tbl[id].server].closed = TRUE,
                                ![tbl[id].server].closes = @ + 1]]

\* the callbacks that call disposeSession when a session ends. A DELETE makes
\* the transport call onsessionclosed and then close itself, which fires
\* onclose; server.close(), called by disposeSession, closes the transport as
\* well, which fires onclose once more.
DeleteTriggers == <<"onsessionclosed", "onclose of server.close", "onclose">>
CloseTriggers == <<"onclose", "onclose of server.close">>

\* the calls of disposeSession(id) one teardown makes; each runs from its
\* lookup to its delete without yielding, so that they take effect one after
\* the other
RECURSIVE teardown(_, _, _, _)
teardown(tbl, prs, id, triggers) ==
    IF triggers = <<>> THEN [sessions |-> tbl, pairs |-> prs]
    ELSE LET r == disposeSession(tbl, prs, id)
         IN teardown(r.sessions, r.pairs, id, Tail(triggers))

\* what becomes of a rejection of context.server.close() inside disposeSession,
\* whose promise every caller discards with `void`: index.ts catches and logs
\* it, server.ts lets the discarded promise reject
closeRejection(im) == IF im = Omniscope THEN "logged" ELSE "unhandledRejection"

\* what becomes of a failure thrown in the try block of the handler once the
\* response headers are out: index.ts checks res.headersSent and writes
\* nothing, server.ts calls res.status(500).json(...), which throws in the
\* catch block, so the handler's promise rejects
lateFailure(im) == IF im = Omniscope THEN "logged" ELSE "handlerRejects"

\* if (!session && <initialize POST>)
shouldCreateSession_ignoresLookup(im, known, req) == isInit(im, req)

shouldCreateSession_anyRequest(im, known, req) == ~known

shouldCreateSession(im, known, req) == ~known /\ isInit(im, req)

\* the error the router answers when it has no session for the request
noSessionResponse(im, req) ==
    IF im = Workflow THEN Response("router", 400, InvalidRequestCode)
    ELSE IF req.sid # NoSessionId THEN Response("router", 404, UnknownSessionCode)
    ELSE Response("router", 400, InvalidRequestCode)

\* transport.handleRequest(req, res, req.body) on pair p, with the callbacks
\* onsessioninitialized, onsessionclosed and onclose the router registered
handleRequest(tbl, prs, nid, p, req) ==
    LET same == [sessions |-> tbl, pairs |-> prs, nextId |-> nid,
                 newId |-> NoSessionId, dispatched |-> FALSE, disposed |-> FALSE]
    IN
    IF ~req.acceptable
    THEN same @@ [response |-> TransportError(406)]
    ELSE IF req.method = "POST" /\ req.body = "initialize"
    THEN IF prs[p].initialized
         THEN same @@ [response |-> TransportError(400)]
         ELSE LET id == sessionIdGenerator(nid) IN
              [sessions |-> Put(tbl, id, Context(p)),
               pairs |-> [prs EXCEPT ![p].sessionId = id, ![p].initialized = TRUE],
               nextId |-> nid + 1, newId |-> id, dispatched |-> FALSE,
               disposed |-> FALSE, response |-> Success]
    ELSE IF ~prs[p].initialized \/ req.sid = NoSessionId
    THEN same @@ [response |-> TransportError(400)]
    ELSE IF req.sid # prs[p].sessionId
    THEN same @@ [response |-> TransportError(404)]
    ELSE IF req.method = "DELETE"
    THEN LET again == teardown(tbl, prs, prs[p].sessionId, DeleteTriggers)
         IN [sessions |-> again.sessions, pairs |-> again.pairs, nextId |-> nid,
             newId |-> NoSessionId, dispatched |-> FALSE,
             disposed |-> Lookup(tbl, prs[p].sessionId), response |-> Success]
    ELSE [same EXCEPT !.dispatched = TRUE] @@ [response |-> Success]

Snapshot == [sessions |-> sessions, everIds |-> everIds]

\* one step of the router, as the properties see it
Step(kind, req, known, created, forwarded, p, bound, r, failure, escape) ==
    [kind |-> kind, req |-> req, known |-> known, created |-> created,
     forwarded |-> forwarded, pair |-> p, bound |-> bound, newId |-> r.newId,
     dispatched |-> r.dispatched, disposed |-> r.disposed, response |-> r.response,
     failure |-> failure, escape |-> escape, unhandled |-> escape = "unhandledRejection",
     before |-> Snapshot]

Nothing(resp) ==
    [newId |-> NoSessionId, dispatched |-> FALSE, disposed |-> FALSE, response |-> resp]

\* failures of the calls the handler makes
Faults == {"none", "handleRequestThrows", "handleRequestThrowsLate", "closeRejects"}

\* the handler calls handleRequest on pair p and the request is over
Forward(p, req, prs, known, created) ==
    LET r == handleRequest(sessions, prs, nextId, p, req) IN
    \E fault \in Faults :
      /\ fault = "closeRejects" => r.disposed
      /\ IF fault = "handleRequestThrows"
         THEN /\ sessions' = sessions
              /\ pairs' = prs
              /\ nextId' = nextId
              /\ everIds' = everIds
              /\ last' = Step("handled", req, known, created, TRUE, p, prs[p].initialized,
                              Nothing(InternalError), fault, "none")
         ELSE /\ sessions' = r.sessions
              /\ pairs' = r.pairs
              /\ nextId' = r.nextId
              /\ everIds' = everIds \cup DOMAIN r.sessions
              /\ \E escape \in {"none", "logged", "handlerRejects", "unhandledRejection"} :
                   /\ fault = "none" => escape = "none"
                   /\ fault = "closeRejects" => escape = closeRejection(impl)
                   \* a rejected handler promise is unhandled unless the
                   \* framework in use catches it
                   /\ fault = "handleRequestThrowsLate" =>
                         IF lateFailure(impl) = "logged" THEN escape = "logged"
                         ELSE escape \in {"handlerRejects", "unhandledRejection"}
                   /\ last' = Step("handled", req, known, created, TRUE, p,
                                   prs[p].initialized, r, fault, escape)

\* no session found, initialize POST: create the pair, await server.connect
McpCreateSessionWith(g, reqs) ==
    /\ Len(pairs) < MaxPairs
    /\ Cardinality(inflight) < MaxInflight
    /\ gate' = g
    /\ \E req \in reqs :
         /\ Sendable(req)
         /\ shouldCreateSession(impl, Lookup(sessions, req.sid), req)
         /\ [req |-> req, pair |-> Len(pairs) + 1] \notin inflight
         /\ pairs' = Append(pairs, NewPair)
         /\ inflight' = inflight \cup
               {[req |-> req, pair |-> Len(pairs) + 1, known |-> Lookup(sessions, req.sid)]}
         /\ last' = Step("suspended", req, Lookup(sessions, req.sid), TRUE, FALSE,
                         Len(pairs) + 1, FALSE, Nothing(NoResponse), "none", "none")
    /\ UNCHANGED <<impl, config, startup, healthVars, runnerVars, requestVars, mcpBasic, configVars, clientVars, sessions, nextId, everIds>>

McpCreateSession == McpCreateSessionWith(gate, Requests)

\* no session found, initialize POST, and createWorkflowServer() or the
\* transport constructor throws: the catch block answers
McpCreateThrowsWith(g, reqs) ==
    /\ gate' = g
    /\ \E req \in reqs :
         /\ Sendable(req)
         /\ shouldCreateSession(impl, Lookup(sessions, req.sid), req)
         /\ last' = Step("handled", req, Lookup(sessions, req.sid), FALSE, FALSE, 0,
                         FALSE, Nothing(InternalError), "createThrows", "none")
    /\ UNCHANGED <<impl, config, startup, healthVars, runnerVars, requestVars, mcpBasic, configVars, clientVars, sessions, pairs, nextId,
                   everIds, inflight>>

McpCreateThrows == McpCreateThrowsWith(gate, Requests)

\* server.connect resolved: session = { server, transport }; handleRequest
McpConnected ==
    /\ \E h \in inflight :
         /\ inflight' = inflight \ {h}
         /\ Forward(h.pair, h.req, [pairs EXCEPT ![h.pair].connected = TRUE],
                    h.known, TRUE)
    /\ UNCHANGED <<impl, config, startup, healthVars, runnerVars, requestVars, gateVars, configVars, clientVars>>

\* server.connect rejected: the catch block answers, nothing was registered
McpConnectRejects ==
    /\ \E h \in inflight :
         /\ inflight' = inflight \ {h}
         /\ last' = Step("handled", h.req, h.known, TRUE, FALSE, h.pair, FALSE,
                         Nothing(InternalError), "connectRejects", "none")
    /\ UNCHANGED <<impl, config, startup, healthVars, runnerVars, requestVars, gateVars, configVars, clientVars, sessions, pairs, nextId, everIds>>

\* no session found and no initialize POST: answer the session error
McpRejectNoSessionWith(g, reqs) ==
    /\ gate' = g
    /\ \E req \in reqs :
         /\ Sendable(req)
         /\ ~shouldCreateSession(impl, Lookup(sessions, req.sid), req)
         /\ ~Lookup(sessions, req.sid)
         /\ last' = Step("handled", req, FALSE, FALSE, FALSE, 0, FALSE,
                         Nothing(noSessionResponse(impl, req)), "none", "none")
    /\ UNCHANGED <<impl, config, startup, healthVars, runnerVars, requestVars, mcpBasic, configVars, clientVars, sessions, pairs, nextId,
                   everIds, inflight>>

McpRejectNoSession == McpRejectNoSessionWith(gate, Requests)

\* session found: handleRequest on the transport stored under the id
McpDispatchKnownWith(g, reqs) ==
    /\ gate' = g
    /\ \E req \in reqs :
         /\ Sendable(req)
         /\ ~shouldCreateSession(impl, Lookup(sessions, req.sid), req)
         /\ Lookup(sessions, req.sid)
         /\ Forward(sessions[req.sid].transport, req, pairs, TRUE, FALSE)
    /\ UNCHANGED <<impl, config, startup, healthVars, runnerVars, requestVars, mcpBasic, configVars, clientVars, inflight>>

McpDispatchKnown == McpDispatchKnownWith(gate, Requests)

\* transport.onclose = () => { void disposeSession(transport.sessionId) },
\* fired by the transport of a registered session closing on its own
TransportOnClose ==
    /\ \E id \in DOMAIN sessions, rejects \in BOOLEAN :
         LET p == sessions[id].transport
             r == teardown(sessions, pairs, pairs[p].sessionId, CloseTriggers)
         IN /\ sessions' = r.sessions
            /\ pairs' = r.pairs
            /\ last' = Step("closed",
                            [method |-> "none", body |-> "none", sid |-> pairs[p].sessionId,
                             acceptable |-> TRUE],
                            TRUE, FALSE, FALSE, p, TRUE,
                            [newId |-> NoSessionId, dispatched |-> FALSE,
                             disposed |-> TRUE, response |-> NoResponse],
                            IF rejects THEN "closeRejects" ELSE "none",
                            IF rejects THEN closeRejection(impl) ELSE "none")
    /\ UNCHANGED <<impl, config, startup, healthVars, runnerVars, requestVars, gateVars, configVars, clientVars, nextId, everIds, inflight>>

-----------------------------------------------------------------------------
(* Basic-auth middleware in front of /mcp (server.ts only) *)

BasicEnvs ==
    {[USER |-> Unset, PASS |-> Unset],
     [USER |-> EnvString(<<"u">>), PASS |-> Unset],
     [USER |-> Unset, PASS |-> EnvString(<<"a">>)],
     [USER |-> EnvString(<<"u">>), PASS |-> EnvString(<<>>)],
     [USER |-> EnvString(<<"u">>), PASS |-> EnvString(<<"a">>)],
     [USER |-> EnvString(<<"u">>), PASS |-> EnvString(<<":">>)]}
UnsetBasic == [USER |-> Unset, PASS |-> Unset]

\* String.prototype.split(":")
RECURSIVE Split(_)
Split(str) ==
    IF \A i \in 1..Len(str) : str[i] # ":" THEN <<str>>
    ELSE LET i == CHOOSE k \in 1..Len(str) :
                      str[k] = ":" /\ \A j \in 1..(k - 1) : str[j] # ":"
         IN <<SubSeq(str, 1, i - 1)>> \o Split(SubSeq(str, i + 1, Len(str)))

PresentedTexts ==
    {Credentials(user, pass) : user \in {<<"u">>, <<"a">>},
                               pass \in {<<>>, <<"a">>, <<":">>, <<"a", ":">>}}
    \cup {<<"u">>}

NoAuthorization == [scheme |-> "none", payload |-> Base64(<<>>)]
AuthorizationHeaders ==
    {NoAuthorization}
    \cup {[scheme |-> "Basic ", payload |-> Base64(t)] : t \in PresentedTexts}
    \cup {[scheme |-> sc, payload |-> Base64(Credentials(<<"u">>, <<"a">>))] :
            sc \in {"basic ", "Bearer "}}

Verdict(next, status, body) == [next |-> next, status |-> status, body |-> body]

\* app.use((req, res, next) => ...) of server.ts; index.ts has no such
\* middleware and never reads MCP_BASIC_USER / MCP_BASIC_PASS
basicAuth(im, env, h) ==
    IF im = Omniscope THEN Verdict(TRUE, 0, "none")
    ELSE IF Falsy(env.USER) \/ Falsy(env.PASS) THEN Verdict(TRUE, 0, "none")
    ELSE IF h.scheme # "Basic " THEN Verdict(FALSE, 401, "Unauthorized")
    ELSE LET decoded == FromBase64(h.payload)
             parts == Split(decoded)
             u == EnvString(parts[1])
             pw == IF Len(parts) >= 2 THEN EnvString(parts[2]) ELSE Unset
         IN IF u # env.USER \/ pw # env.PASS
            THEN Verdict(FALSE, 401, "Invalid credentials")
            ELSE Verdict(TRUE, 0, "none")

NoGate == [kind |-> "none", header |-> NoAuthorization, next |-> FALSE, status |-> 0]
Checked(h) ==
    LET v == basicAuth(impl, mcpBasic, h) IN
    [kind |-> "checked", header |-> h, next |-> v.next, status |-> v.status]

\* the requests sent through the middleware
GateRequests ==
    {req \in Requests :
        /\ req.acceptable
        /\ req.sid \in {NoSessionId, 1}
        /\ req.method = "DELETE" \/ req.body \in {"initialize", "call"}}

\* next(): the /mcp handler runs in the same synchronous stretch
GatedCreateSession ==
    \E h \in AuthorizationHeaders : gate = NoGate /\ Checked(h).next /\ McpCreateSessionWith(Checked(h), GateRequests)

GatedCreateThrows ==
    \E h \in AuthorizationHeaders : gate = NoGate /\ Checked(h).next /\ McpCreateThrowsWith(Checked(h), GateRequests)

GatedRejectNoSession ==
    \E h \in AuthorizationHeaders : gate = NoGate /\ Checked(h).next /\ McpRejectNoSessionWith(Checked(h), GateRequests)

GatedDispatchKnown ==
    \E h \in AuthorizationHeaders : gate = NoGate /\ Checked(h).next /\ McpDispatchKnownWith(Checked(h), GateRequests)

\* return res.status(401).json(...): next() is not called
McpUnauthorized ==
    /\ gate = NoGate
    /\ \E h \in AuthorizationHeaders :
         /\ ~Checked(h).next
         /\ gate' = Checked(h)
    /\ UNCHANGED <<impl, config, startup, healthVars, runnerVars, requestVars, mcpBasic, configVars, clientVars, routerVars>>

\* the middleware keeps nothing of a request
GateDone ==
    /\ gate # NoGate
    /\ gate' = NoGate
    /\ UNCHANGED <<impl, config, startup, healthVars, runnerVars, requestVars, mcpBasic, configVars, clientVars, routerVars>>

-----------------------------------------------------------------------------
(* request() of the two API clients: headers, timeout, response handling *)

Slots == 1..MaxCalls

NoHeader == [scheme |-> "none", value |-> Plain(<<>>)]

\* OmniscopeClient.createHeaders: switch (this.config.auth.type)
OmniscopeClient_createHeaders(cfg) ==
    IF cfg.auth.type = "bearer"
    THEN [scheme |-> "Bearer ", value |-> Plain(cfg.auth.token)]
    ELSE IF cfg.auth.type = "basic"
    THEN [scheme |-> "Basic ",
          value |-> Base64(Credentials(cfg.auth.username, cfg.auth.password))]
    ELSE NoHeader

\* WorkflowClient.createHeaders: if (type === "basic") ... return {}
WorkflowClient_createHeaders(cfg) ==
    IF cfg.auth.type = "basic"
    THEN [scheme |-> "Basic ",
          value |-> Base64(Credentials(cfg.auth.username, cfg.auth.password))]
    ELSE NoHeader

createHeaders(im, cfg) ==
    IF im = Omniscope THEN OmniscopeClient_createHeaders(cfg)
    ELSE WorkflowClient_createHeaders(cfg)

\* what the upstream may answer
NoResponseYet == [status |-> 0, statusText |-> "none"]
UpstreamResponses ==
    {[status |-> 200, statusText |-> "OK"],
     [status |-> 204, statusText |-> "No Content"],
     [status |-> 500, statusText |-> "Internal Server Error"],
     [status |-> 500, statusText |-> ""]}
BodyKinds == {"object", "scalar", "unparseable"}
\* response.ok
IsOk(response) == response.status \in 200..299

Free == [phase |-> "free", owner |-> NoSessionId, authorization |-> NoHeader,
         response |-> NoResponseYet]

\* a message of an error
Message(source, text) == [source |-> source, text |-> text]
NoMessage == Message("none", "")
AbortMessage == Message("cause", "This operation was aborted")
ParseMessage == Message("cause", "Unexpected token")

NotSettled ==
    [kind |-> "none", name |-> "none", status |-> 0, message |-> NoMessage,
     value |-> "none"]
Returned(value) ==
    [kind |-> "result", name |-> "none", status |-> 0, message |-> NoMessage,
     value |-> value]
Failed(name, status, message) ==
    [kind |-> "error", name |-> name, status |-> status, message |-> message,
     value |-> "none"]

\* the rejection of fetch() or of response.json() after controller.abort()
AbortError == Failed("AbortError", 0, AbortMessage)
\* the rejection of fetch() when the upstream cannot be reached
FetchFailed == Failed("TypeError", 0, Message("cause", "fetch failed"))
\* the rejection of response.json() on a body that is no JSON
SyntaxError == Failed("SyntaxError", 0, ParseMessage)

\* throw new Error(`... (${response.status}): ${errorMessage}`)
HttpError(response, message) == Failed("Error", response.status, message)

\* the inner try of the !response.ok branch: data parsed
errorMessageOf(im, body) ==
    IF im = Omniscope /\ body = "scalar" THEN Message("body", "String(data)")
    ELSE Message("body", "JSON.stringify(data)")

\* the inner catch of the !response.ok branch: response.json() rejected with
\* cause; index client: response.statusText || error.message, workflow
\* client: msg stays response.statusText
fallbackMessage(im, response, cause) ==
    IF im = Omniscope /\ response.statusText = "" THEN cause.message
    ELSE Message("statusText", response.statusText)

\* request() resumes after `await fetch` with a response
afterFetch_returnsErrorBody(r, response) ==
    IF response.status = 204 THEN [phase |-> "settled", outcome |-> Returned("empty")]
    ELSE [phase |-> "readingBody", outcome |-> NotSettled]

\* request() without the 204 case: every success response is parsed
afterFetch_parsesNoContent(r, response) ==
    IF ~IsOk(response) THEN [phase |-> "readingErrorBody", outcome |-> NotSettled]
    ELSE [phase |-> "readingBody", outcome |-> NotSettled]

afterFetch(r, response) ==
    IF ~IsOk(response) THEN [phase |-> "readingErrorBody", outcome |-> NotSettled]
    ELSE IF response.status = 204
    THEN [phase |-> "settled", outcome |-> Returned("empty")]
    ELSE [phase |-> "readingBody", outcome |-> NotSettled]

\* request() resumes after `await response.json()` settled with a body
afterBody(im, r, body) ==
    IF r.phase = "readingErrorBody"
    THEN IF body = "unparseable"
         THEN HttpError(r.response, fallbackMessage(im, r.response, SyntaxError))
         ELSE HttpError(r.response, errorMessageOf(im, body))
    ELSE IF body = "unparseable" THEN SyntaxError
    ELSE Returned("json")

\* request() resumes after controller.abort() rejected what it awaited
afterAbort(im, r) ==
    IF r.phase = "readingErrorBody"
    THEN HttpError(r.response, fallbackMessage(im, r.response, AbortError))
    ELSE AbortError

\* const controller = new AbortController() in request(): the calls whose
\* signal the timer of call i aborts
abortedBy_sharedController(reqs, i) == {j \in Slots : reqs[j].phase # "free"}

abortedBy(reqs, i) == {i}

NothingSettled ==
    [outcome |-> NotSettled, slot |-> 0, owner |-> NoSessionId, phase |-> "none",
     timedOut |-> FALSE, response |-> NoResponseYet, body |-> "none"]
Settle(i, out, timedOut, body) ==
    [outcome |-> out, slot |-> i, owner |-> requests[i].owner,
     phase |-> requests[i].phase, timedOut |-> timedOut,
     response |-> requests[i].response, body |-> body]

\* a tool handler of a live session calls a client operation, which calls
\* request(): headers, controller, timer, fetch
StartRequest ==
    /\ settled = NothingSettled
    /\ \E i \in Slots, owner \in DOMAIN sessions :
         /\ requests[i].phase = "free"
         /\ \A j \in 1..(i - 1) : requests[j].phase # "free"
         /\ requests' = [requests EXCEPT ![i] =
               [phase |-> "fetching", owner |-> owner,
                authorization |-> createHeaders(impl, config),
                response |-> NoResponseYet]]
    /\ UNCHANGED <<impl, config, startup, healthVars, runnerVars, settled, gateVars, configVars, clientVars, routerVars>>

\* fetch resolves with the status line and headers of the upstream response
ResponseArrives ==
    /\ settled = NothingSettled
    /\ \E i \in Slots, response \in UpstreamResponses :
         /\ requests[i].phase = "fetching"
         /\ LET next == afterFetch(requests[i], response) IN
            IF next.phase = "settled"
            THEN /\ requests' = [requests EXCEPT ![i] = Free]
                 /\ settled' = [Settle(i, next.outcome, FALSE, "none")
                                   EXCEPT !.response = response]
            ELSE /\ requests' = [requests EXCEPT ![i].phase = next.phase,
                                                 ![i].response = response]
                 /\ settled' = settled
    /\ UNCHANGED <<impl, config, startup, healthVars, runnerVars, gateVars, configVars, clientVars, routerVars>>

\* response.json() settles
BodyArrives ==
    /\ settled = NothingSettled
    /\ \E i \in Slots, body \in BodyKinds :
         /\ requests[i].phase \in {"readingBody", "readingErrorBody"}
         /\ requests' = [requests EXCEPT ![i] = Free]
         /\ settled' = Settle(i, afterBody(impl, requests[i], body), FALSE, body)
    /\ UNCHANGED <<impl, config, startup, healthVars, runnerVars, gateVars, configVars, clientVars, routerVars>>

\* fetch rejects: the upstream cannot be reached
FetchFails ==
    /\ settled = NothingSettled
    /\ \E i \in Slots :
         /\ requests[i].phase = "fetching"
         /\ requests' = [requests EXCEPT ![i] = Free]
         /\ settled' = Settle(i, FetchFailed, FALSE, "none")
    /\ UNCHANGED <<impl, config, startup, healthVars, runnerVars, gateVars, configVars, clientVars, routerVars>>

\* setTimeout(() => controller.abort(), this.config.requestTimeoutMs) fires
\* before request() reached its finally block
TimerFires ==
    /\ settled = NothingSettled
    /\ \E i \in Slots :
         /\ requests[i].phase # "free"
         /\ requests' = [j \in Slots |->
               IF j \in abortedBy(requests, i) THEN Free ELSE requests[j]]
         /\ settled' = Settle(i, afterAbort(impl, requests[i]), TRUE, "none")
    /\ UNCHANGED <<impl, config, startup, healthVars, runnerVars, gateVars, configVars, clientVars, routerVars>>

\* the caller of request() has taken the result or the error
Consume ==
    /\ settled # NothingSettled
    /\ settled' = NothingSettled
    /\ UNCHANGED <<impl, config, startup, healthVars, runnerVars, requests, gateVars, configVars, clientVars, routerVars>>

-----------------------------------------------------------------------------
(* Scheduler task runner page (omniscope-scheduler-task-runner/script.js) *)

NoJob == 0      \* currentJobId = null
NoTimer == 0    \* pollTimer = null
JobIds == 1..MaxJobs
TerminalStatuses == {"COMPLETED", "FAILED", "CANCELLED"}
FailedChecks == {"notOk", "networkError"}
TaskNames == {<<>>, <<" ">>, <<"t">>}
NoEvent == [kind |-> "none", job |-> NoJob, result |-> "none"]
Event(kind, job, result) == [kind |-> kind, job |-> job, result |-> result]
NoFetches == [execute |-> 0, poll |-> [j \in JobIds |-> 0]]
Button(disabled) == [disabled |-> disabled]

\* the page's bindings and the browser's table of running interval timers
Page ==
    [currentJobId |-> currentJobId, pollTimer |-> pollTimer,
     executeBtn |-> executeBtn, cancelBtn |-> cancelBtn, intervals |-> intervals]

Becomes(page) ==
    /\ currentJobId' = page.currentJobId
    /\ pollTimer' = page.pollTimer
    /\ executeBtn' = page.executeBtn
    /\ cancelBtn' = page.cancelBtn
    /\ intervals' = page.intervals

setRunningState(page, isRunning) ==
    [page EXCEPT !.executeBtn = Button(isRunning), !.cancelBtn = Button(~isRunning)]

stopPolling(page) ==
    IF page.pollTimer # NoTimer
    THEN [page EXCEPT !.intervals = @ \ {page.pollTimer}, !.pollTimer = NoTimer]
    ELSE page

\* setInterval returns a new handle on every call; startPolling is called once
\* for a job id, so the handle is named by the job the callback polls
startPolling(page, jobId) ==
    LET stopped == stopPolling(page)
    IN [stopped EXCEPT !.pollTimer = jobId, !.intervals = @ \cup {jobId}]

\* the interval callback, once its fetch has settled with `result`
pollCallback(page, result) ==
    IF result \in FailedChecks \cup TerminalStatuses
    THEN [setRunningState(stopPolling(page), FALSE) EXCEPT !.currentJobId = NoJob]
    ELSE page

\* the Execute handler, once the POST has returned a job id
executeStarted(page, jobId) ==
    startPolling(setRunningState([page EXCEPT !.currentJobId = jobId], TRUE), jobId)

\* a click on Execute: a blank task name is reported, any other is POSTed; the
\* handler leaves the button as it is while the POST is under way
ExecuteClick ==
    /\ ~executeBtn.disabled
    /\ \E taskName \in TaskNames :
         IF Trim(taskName) = <<>>
         THEN /\ event' = Event("executeClick", NoJob, "noTaskName")
              /\ UNCHANGED network
         ELSE /\ network.execute < MaxPosts
              /\ network' = [network EXCEPT !.execute = @ + 1]
              /\ event' = Event("executeClick", NoJob, "sent")
    /\ UNCHANGED <<currentJobId, pollTimer, executeBtn, cancelBtn, intervals, jobs>>
    /\ UNCHANGED <<impl, config, startup, healthVars, requestVars, gateVars, configVars, clientVars, routerVars>>

\* the POST is answered: with the id of the job the scheduler started, with an
\* error status, with a blank body, or not at all
ExecuteResponse ==
    /\ network.execute > 0
    /\ \E answer \in {"jobId", "notOk", "emptyId", "networkError"} :
         IF answer = "jobId"
         THEN /\ Len(jobs) < MaxJobs
              /\ LET jobId == Len(jobs) + 1
                 IN /\ jobs' = Append(jobs, "RUNNING")
                    /\ Becomes(executeStarted(Page, jobId))
                    /\ event' = Event("executeResponse", jobId, "started")
         ELSE /\ event' = Event("executeResponse", NoJob, answer)
              /\ UNCHANGED <<currentJobId, pollTimer, executeBtn, cancelBtn, intervals, jobs>>
    /\ network' = [network EXCEPT !.execute = @ - 1]
    /\ UNCHANGED <<impl, config, startup, healthVars, requestVars, gateVars, configVars, clientVars, routerVars>>

\* a running interval timer fires and its callback sends the status request
PollTick ==
    /\ \E handle \in intervals :
         /\ network.poll[handle] < MaxPolls
         /\ network' = [network EXCEPT !.poll[handle] = @ + 1]
         /\ event' = Event("pollTick", handle, "sent")
    /\ UNCHANGED <<currentJobId, pollTimer, executeBtn, cancelBtn, intervals, jobs>>
    /\ UNCHANGED <<impl, config, startup, healthVars, requestVars, gateVars, configVars, clientVars, routerVars>>

\* a status request settles: the callback that sent it goes on, whatever has
\* happened to its timer since; the status is the job's, or the one it had
\* when the scheduler wrote the answer
PollResponse ==
    /\ \E jobId \in JobIds :
         /\ network.poll[jobId] > 0
         /\ \E result \in FailedChecks \cup {"RUNNING", jobs[jobId]} :
              /\ Becomes(pollCallback(Page, result))
              /\ event' = Event("pollResponse", jobId, result)
         /\ network' = [network EXCEPT !.poll[jobId] = @ - 1]
    /\ UNCHANGED jobs
    /\ UNCHANGED <<impl, config, startup, healthVars, requestVars, gateVars, configVars, clientVars, routerVars>>

\* the scheduler finishes a job
JobProgresses ==
    /\ \E jobId \in DOMAIN jobs :
         /\ jobs[jobId] = "RUNNING"
         /\ \E status \in {"COMPLETED", "FAILED"} :
              /\ jobs' = [jobs EXCEPT ![jobId] = status]
              /\ event' = Event("jobProgresses", jobId, status)
    /\ UNCHANGED <<currentJobId, pollTimer, executeBtn, cancelBtn, intervals, network>>
    /\ UNCHANGED <<impl, config, startup, healthVars, requestVars, gateVars, configVars, clientVars, routerVars>>

\* a click on Cancel: without a current job it is reported, otherwise the
\* DELETE is sent and its answer logged; the page's bindings stay as they are
CancelClick ==
    /\ ~cancelBtn.disabled
    /\ IF currentJobId = NoJob
       THEN /\ event' = Event("cancelClick", NoJob, "noActiveJob")
            /\ UNCHANGED jobs
       ELSE \E answer \in {"cancelled", "notOk", "networkError"} :
              /\ jobs' = IF answer = "cancelled" /\ jobs[currentJobId] = "RUNNING"
                         THEN [jobs EXCEPT ![currentJobId] = "CANCELLED"]
                         ELSE jobs
              /\ event' = Event("cancelClick", currentJobId, answer)
    /\ UNCHANGED <<currentJobId, pollTimer, executeBtn, cancelBtn, intervals, network>>
    /\ UNCHANGED <<impl, config, startup, healthVars, requestVars, gateVars, configVars, clientVars, routerVars>>

-----------------------------------------------------------------------------
(* Initial state and specifications *)

NoStep ==
    [kind |-> "none", req |-> [method |-> "none", body |-> "none", sid |-> NoSessionId,
                               acceptable |-> TRUE],
     known |-> FALSE, created |-> FALSE, forwarded |-> FALSE, pair |-> 0,
     bound |-> FALSE, newId |-> NoSessionId, dispatched |-> FALSE, disposed |-> FALSE,
     response |-> NoResponse, failure |-> "none", escape |-> "none", unhandled |-> FALSE,
     before |-> [sessions |-> EmptyTable, everIds |-> {}]]

InitRouter ==
    /\ sessions = EmptyTable
    /\ pairs = <<>>
    /\ nextId = 1
    /\ everIds = {}
    /\ inflight = {}
    /\ last = NoStep

InitRequests ==
    /\ requests = [i \in Slots |-> Free]
    /\ settled = NothingSettled

\* no OMNI_HEALTHCHECK_PROJECT_PATH and no /healthz request
InitHealth ==
    /\ healthProjectPath = Unset
    /\ healthz = NoHealthz

\* the task runner page is not open
InitRunner ==
    /\ currentJobId = NoJob
    /\ pollTimer = NoTimer
    /\ executeBtn = [disabled |-> FALSE]
    /\ cancelBtn = [disabled |-> FALSE]
    /\ intervals = {}
    /\ network = NoFetches
    /\ jobs = <<>>
    /\ event = NoEvent

InitClient ==
    /\ call = Idle
    /\ client = NoClient
    /\ upstream = <<>>
    /\ outcome = NoOutcome

\* the config.ts functions and the clients are exercised under every environment
Init ==
    /\ InitProcess
    /\ probe = NoProbe
    /\ InitClient
    /\ InitRouter
    /\ mcpBasic = UnsetBasic
    /\ gate = NoGate
    /\ InitRequests
    /\ InitHealth
    /\ InitRunner

ConfigNext == ApplyValidateProjectPath \/ ApplyResolveBaseUrl \/ Forget

StartupInit ==
    /\ impl \in Impls
    /\ config = Unloaded
    /\ startup \in {Starting(env) : env \in StartupEnvs}
    /\ probe = NoProbe
    /\ InitClient
    /\ InitRouter
    /\ mcpBasic = UnsetBasic
    /\ gate = NoGate
    /\ InitRequests
    /\ InitHealth
    /\ InitRunner

StartupNext == LoadConfig \/ Serve

SpecStartup == StartupInit /\ [][StartupNext]_vars

SpecConfig == Init /\ [][ConfigNext]_vars

ClientNext == ToolCall \/ ClientCall \/ UpstreamResponds \/ Return

SpecClient == Init /\ [][ClientNext]_vars

\* the request bodies are exercised under one environment
BodyInit ==
    /\ impl \in Impls
    /\ StartedUnder([OMNI_BASE_URL |-> Url("h1", <<"/">>, FALSE),
                     OMNI_ALLOW_BASE_URLS |-> <<>>,
                     OMNI_ALLOWED_PROJECT_PREFIXES |-> <<>>, OMNI_TIMEOUT_MS |-> Unset,
                     auth |-> NoAuthEnv])
    /\ probe = NoProbe
    /\ InitClient
    /\ InitRouter
    /\ mcpBasic = UnsetBasic
    /\ gate = NoGate
    /\ InitRequests
    /\ InitHealth
    /\ InitRunner

BodyNext == ExecuteToolCall \/ UpstreamResponds \/ Return

SpecBody == BodyInit /\ [][BodyNext]_vars

\* the router reads nothing of the config: one environment
RouterEnv ==
    [OMNI_BASE_URL |-> Url("h1", <<"/">>, FALSE), OMNI_ALLOW_BASE_URLS |-> <<>>,
     OMNI_ALLOWED_PROJECT_PREFIXES |-> <<>>, OMNI_TIMEOUT_MS |-> Unset,
     auth |-> NoAuthEnv]

\* MCP_BASIC_USER / MCP_BASIC_PASS unset: the middleware lets every request
\* through and the router is reached directly
RouterInit ==
    /\ impl \in Impls
    /\ StartedUnder(RouterEnv)
    /\ probe = NoProbe
    /\ InitClient
    /\ InitRouter
    /\ mcpBasic = UnsetBasic
    /\ gate = NoGate
    /\ InitRequests
    /\ InitHealth
    /\ InitRunner

RouterNext ==
    \/ McpCreateSession
    \/ McpCreateThrows
    \/ McpConnected
    \/ McpConnectRejects
    \/ McpRejectNoSession
    \/ McpDispatchKnown
    \/ TransportOnClose

Spec == RouterInit /\ [][RouterNext]_vars

GateInit ==
    /\ impl \in Impls
    /\ StartedUnder(RouterEnv)
    /\ probe = NoProbe
    /\ InitClient
    /\ InitRouter
    /\ mcpBasic \in BasicEnvs
    \* index.ts never reads the two variables: one setting of them is enough
    /\ impl = Omniscope => mcpBasic = [USER |-> EnvString(<<"u">>), PASS |-> EnvString(<<"a">>)]
    /\ gate = NoGate
    /\ InitRequests
    /\ InitHealth
    /\ InitRunner

GateNext ==
    \/ GatedCreateSession
    \/ GatedCreateThrows
    \/ GatedRejectNoSession
    \/ GatedDispatchKnown
    \/ McpUnauthorized
    \/ GateDone
    \/ McpConnected
    \/ McpConnectRejects
    \/ TransportOnClose

SpecGate == GateInit /\ [][GateNext]_vars

\* the router after two clients initialized a session each, as
\* handleRequest leaves it
InitializeRequest ==
    [method |-> "POST", body |-> "initialize", sid |-> NoSessionId, acceptable |-> TRUE]
Connected(pair) == [pair EXCEPT !.connected = TRUE]
FirstSession == handleRequest(EmptyTable, <<Connected(NewPair)>>, 1, 1, InitializeRequest)
SecondSession ==
    handleRequest(FirstSession.sessions, Append(FirstSession.pairs, Connected(NewPair)),
                  FirstSession.nextId, 2, InitializeRequest)

RequestEnvs == {[RouterEnv EXCEPT !.auth = a] : a \in AuthEnvs}

RequestInit ==
    /\ impl \in Impls
    /\ \E env \in RequestEnvs : StartedUnder(env)
    /\ probe = NoProbe
    /\ InitClient
    /\ sessions = SecondSession.sessions
    /\ pairs = SecondSession.pairs
    /\ nextId = SecondSession.nextId
    /\ everIds = DOMAIN SecondSession.sessions
    /\ inflight = {}
    /\ last = NoStep
    /\ mcpBasic = UnsetBasic
    /\ gate = NoGate
    /\ InitRequests
    /\ InitHealth
    /\ InitRunner

RequestNext ==
    \/ StartRequest
    \/ ResponseArrives
    \/ BodyArrives
    \/ FetchFails
    \/ TimerFires
    \/ Consume

SpecRequest == RequestInit /\ [][RequestNext]_vars

\* /healthz is asked while two sessions are registered
HealthInit ==
    /\ InitProcess
    /\ probe = NoProbe
    /\ InitClient
    /\ sessions = SecondSession.sessions
    /\ pairs = SecondSession.pairs
    /\ nextId = SecondSession.nextId
    /\ everIds = DOMAIN SecondSession.sessions
    /\ inflight = {}
    /\ last = NoStep
    /\ mcpBasic = UnsetBasic
    /\ gate = NoGate
    /\ InitRequests
    /\ healthProjectPath \in HealthPaths
    /\ healthz = NoHealthz
    /\ InitRunner

HealthNext == HealthzRequest \/ HealthzReadSettles \/ HealthzDone

SpecHealth == HealthInit /\ [][HealthNext]_vars

\* the task runner page is opened; the markup that says whether Cancel starts
\* out disabled is not part of the sources
RunnerInit ==
    /\ impl = Omniscope
    /\ StartedUnder(RouterEnv)
    /\ probe = NoProbe
    /\ InitClient
    /\ InitRouter
    /\ mcpBasic = UnsetBasic
    /\ gate = NoGate
    /\ InitRequests
    /\ InitHealth
    /\ currentJobId = NoJob
    /\ pollTimer = NoTimer
    /\ executeBtn = Button(FALSE)
    /\ cancelBtn \in {Button(FALSE), Button(TRUE)}
    /\ intervals = {}
    /\ network = NoFetches
    /\ jobs = <<>>
    /\ event = NoEvent

RunnerNext ==
    \/ ExecuteClick
    \/ ExecuteResponse
    \/ PollTick
    \/ PollResponse
    \/ JobProgresses
    \/ CancelClick

SpecRunner == RunnerInit /\ [][RunnerNext]_vars

\* a handler suspended at `await server.connect` is resumed by the event loop;
\* nothing obliges a client to send a request or a transport to close
SpecLive == Spec /\ WF_vars(McpConnected \/ McpConnectRejects)

-----------------------------------------------------------------------------
(* Properties of the configuration resolver and the API clients *)

AllowedPrefixes == {config.allowedProjectPrefixes[i] : i \in DOMAIN config.allowedProjectPrefixes}
AllowedBaseUrls == {config.allowedBaseUrls[i] : i \in DOMAIN config.allowedBaseUrls}
MatchesPrefix(path) == \E prefix \in AllowedPrefixes : StartsWith(path, prefix)
Validated == probe.fn = "validateProjectPath"
Invoked == call # Idle
DryRunCall == Invoked /\ call.op \in MutatingOps /\ call.dryRun
PathRejected == ~validateProjectPath(config, call.projectPath).ok
OverrideRejected == ~CreateFor(impl, config, call).ok

\* C1: with a non-empty allow-list, the project path of every upstream request
\* that is issued starts with a configured prefix.
C1_RequestsWithinAllowList ==
    AllowedPrefixes # {} =>
        \A i \in DOMAIN upstream : MatchesPrefix(upstream[i].url.projectPath)

\* C2: with a non-empty allow-list, validateProjectPath accepts a path only if
\* the path (as the function normalizes it, surrounding white space removed)
\* starts with a configured prefix; it rejects every path that matches no
\* prefix and every path containing "..", also under an allowed prefix.
C2_AllowListDecides ==
    (Validated /\ AllowedPrefixes # {}) =>
        /\ probe.result.ok =>
              MatchesPrefix(Trim(probe.path)) /\ MatchesPrefix(probe.result.value)
        /\ ~MatchesPrefix(Trim(probe.path)) => ~probe.result.ok
        /\ Includes(probe.path, <<".", ".">>) => ~probe.result.ok

C2_DotDotUnderAllowedPrefix ==
    /\ Validated
    /\ AllowedPrefixes # {}
    /\ MatchesPrefix(probe.path)
    /\ Includes(probe.path, <<".", ".">>)
    /\ ~probe.result.ok

WellFormed(raw) ==
    raw # <<>> /\ StartsWith(raw, <<"/">>) /\ ~Includes(raw, <<".", ".">>)

Spaces(k) == [i \in 1..k |-> " "]

\* C3 as claimed: without an allow-list, every non-empty well-formed path
\* (leading "/", no "..") is accepted and the returned string equals the input.
C3_ReturnedEqualsInput ==
    (Validated /\ AllowedPrefixes = {} /\ WellFormed(probe.path)) =>
        probe.result.ok /\ probe.result.value = probe.path

\* C3 amended: without an allow-list, every non-empty well-formed path is
\* accepted and returned with its trailing white space removed; the returned
\* string equals the input when the input ends in no white space.
C3_ReturnedIsTrimmedInput ==
    (Validated /\ AllowedPrefixes = {} /\ WellFormed(probe.path)) =>
        /\ probe.result.ok
        /\ \E k \in 0..Len(probe.path) : probe.path = probe.result.value \o Spaces(k)
        /\ ~EndsWith(probe.result.value, <<" ">>)

C3_AcceptedAndTrimmed ==
    /\ Validated
    /\ AllowedPrefixes = {}
    /\ WellFormed(probe.path)
    /\ probe.result.ok
    /\ probe.result.value # probe.path

\* C4: the default base URL is in the allow-set; a call without an override
\* (absent or empty) gets a client on the default base URL; a call with an
\* override gets a client on the normalized override when that URL is in the
\* allow-set and fails without a client otherwise; so every client's base URL
\* is in the allow-set.
C4_BaseUrlWithinAllowSet ==
    LET requested == IF impl = Omniscope THEN call.baseUrl ELSE Undefined
        normalized == normalizeBaseUrl(requested)
    IN /\ config.defaultBaseUrl \in AllowedBaseUrls
       /\ client.created => client.baseUrl \in AllowedBaseUrls
       /\ (Invoked /\ outcome.kind # "schemaError") =>
             IF requested.kind \in {"undefined", "empty"}
             THEN client.created /\ client.baseUrl = config.defaultBaseUrl
             ELSE IF normalized.ok /\ normalized.value \in AllowedBaseUrls
             THEN client.created /\ client.baseUrl = normalized.value
             ELSE ~client.created /\ outcome.kind = "error" /\ upstream = <<>>

C4_OverrideAccepted ==
    /\ Invoked
    /\ call.baseUrl.kind = "url"
    /\ client.created
    /\ client.baseUrl # config.defaultBaseUrl
    /\ client.baseUrl # call.baseUrl

\* C5 as claimed: a dry-run call to executeWorkflow, lambdaExecuteWorkflow or
\* updateParameters issues no upstream request and always returns a payload
\* with dryRun: true and the normalized project path.
C5_DryRunAlwaysPreviews ==
    (DryRunCall /\ client.created) =>
        /\ upstream = <<>>
        /\ outcome.kind = "preview"
        /\ {"dryRun", "projectPath"} \subseteq outcome.payload.keys
        /\ outcome.payload.dryRun
        /\ outcome.payload.projectPath = Trim(call.projectPath)

\* C5 amended: a dry-run call to executeWorkflow, lambdaExecuteWorkflow or
\* updateParameters never issues an upstream request, and when its project
\* path passes validateProjectPath it returns a payload with dryRun: true and
\* the normalized project path.
C5_DryRunPreviewsValidPath ==
    /\ DryRunCall => upstream = <<>>
    /\ (DryRunCall /\ client.created /\ ~PathRejected) =>
          /\ outcome.kind = "preview"
          /\ {"dryRun", "projectPath"} \subseteq outcome.payload.keys
          /\ outcome.payload.dryRun
          /\ outcome.payload.projectPath = Trim(call.projectPath)

C5_PreviewReturned ==
    /\ DryRunCall
    /\ call.op = UpdateOp
    /\ outcome.kind = "preview"
    /\ outcome.payload.projectPath # call.projectPath

\* C6: an invocation whose project path validateProjectPath rejects or whose
\* base URL override resolveBaseUrl rejects fails with that validation error
\* and issues no upstream request, with the dry-run flag set as well.
C6_RejectedBeforeUpstream ==
    (Invoked /\ (PathRejected \/ OverrideRejected)) =>
        /\ upstream = <<>>
        /\ outcome.kind \in {"error", "schemaError"}
        /\ outcome.kind = "error" =>
              outcome.error =
                 IF OverrideRejected
                 THEN CreateFor(impl, config, call).error
                 ELSE validateProjectPath(config, call.projectPath).error

C6_DryRunOnInvalidPath ==
    /\ DryRunCall
    /\ client.created
    /\ PathRejected
    /\ outcome.kind = "error"

\* C7: an update-parameters call with an empty updates list never results in
\* an upstream HTTP request, whether it reaches the client through a tool or
\* directly (the claim asks for a validation error on top of that).
C7_EmptyUpdatesNeverUpstream ==
    (Invoked /\ call.op = UpdateOp /\ Len(call.updates) = 0) => upstream = <<>>

C21_BodyHoldsOnlySuppliedFields ==
    (Invoked /\ call.op \in {ExecuteOp, LambdaOp}) =>
        \A i \in DOMAIN upstream :
            LET body == upstream[i].body.json IN
            /\ upstream[i].body.sent
            /\ \A k \in DOMAIN body :
                  /\ k \in OptionalFields
                  /\ call.optional[k] # "undefined"
                  /\ body[k] = call.optional[k]
                  /\ body[k] \notin {"null", "undefined"}

\* C23: an invocation of a client operation, and so a tool call, issues at
\* most one upstream request: exactly one when it got as far as fetch,
\* whether the fetch succeeded, ended in a non-success status or was aborted
\* by the timer, and none otherwise.
C23_AtMostOneUpstreamRequest ==
    /\ Len(upstream) <= 1
    /\ (outcome.kind \in {"pending", "result"} \/ outcome.error \in FetchEndings) =>
          Len(upstream) = 1

C23_TimedOutAndNotRetried ==
    /\ call.via = "tool"
    /\ call.op = UpdateOp
    /\ outcome.kind = "error"
    /\ outcome.error = "AbortError"
    /\ Len(upstream) = 1

C21_FalsyFieldsSentOthersLeftOut ==
    /\ call.op = LambdaOp
    /\ call.optional.blocks = "[]"
    /\ call.optional.cancelExisting = "false"
    /\ call.optional.params = "undefined"
    /\ upstream # <<>>
    /\ DOMAIN upstream[1].body.json = {"blocks", "cancelExisting"}

-----------------------------------------------------------------------------
(* Properties of the session router *)

Handled == last.kind = "handled"
\* the last step was taken by the /mcp handler
IsRequest == last.kind \in {"handled", "suspended"}
MethodIsInitialize(req) == req.method = "POST" /\ req.body \in {"initialize", "initializeLike"}
ReservedCodes == (0 - 32099)..(0 - 32000)

\* C8: an initialize POST that the transport accepts, that carries no id of
\* a session in the table and during which no call of the handler fails,
\* ends with a session under a new id, which was
\* never a key of the table before, bound to the McpServer and transport
\* created for this request and for no other id; the table gains exactly that
\* entry.
C8_InitializeRegistersFreshSession ==
    (Handled /\ last.req.method = "POST" /\ last.req.body = "initialize"
        /\ last.req.acceptable /\ ~last.known /\ last.failure = "none") =>
        /\ last.created
        /\ ~last.bound
        /\ last.newId # NoSessionId
        /\ last.newId \notin last.before.everIds
        /\ last.newId \notin DOMAIN last.before.sessions
        /\ sessions = Put(last.before.sessions, last.newId, Context(last.pair))
        /\ \A id \in DOMAIN sessions \ {last.newId} : sessions[id].server # last.pair

C8_SecondSessionRegistered ==
    /\ Handled
    /\ last.req.body = "initialize"
    /\ last.req.sid = NoSessionId
    /\ last.newId # NoSessionId
    /\ Cardinality(DOMAIN sessions) = 2

\* C9: every table entry holds the server and transport that were
\* initialized under its id, and a request whose id is in the table is
\* handed to exactly that transport, never to one created for the request.
C9_KnownIdReachesItsOwnSession ==
    /\ \A id \in DOMAIN sessions :
          /\ sessions[id].server = sessions[id].transport
          /\ pairs[sessions[id].transport].sessionId = id
    /\ (IsRequest /\ last.known) =>
          /\ Handled
          /\ last.forwarded
          /\ ~last.created
          /\ last.pair = last.before.sessions[last.req.sid].transport
          /\ pairs[last.pair].sessionId = last.req.sid

C9_DispatchedToSecondSession ==
    /\ Handled
    /\ last.known
    /\ last.dispatched
    /\ Cardinality(DOMAIN last.before.sessions) = 2
    /\ last.pair = 2

\* C10: a request that is no initialize POST and whose session id is missing
\* or not in the table is answered by the router with a JSON-RPC error object
\* (id null, code in the reserved range -32099..-32000), reaches no
\* transport and leaves the session table as it was.
C10_NoSessionAnswered ==
    (IsRequest /\ ~MethodIsInitialize(last.req) /\ ~last.known) =>
        /\ Handled
        /\ last.response.from = "router"
        /\ last.response.code \in ReservedCodes
        /\ last.response.id = "null"
        /\ ~last.forwarded
        /\ ~last.created
        /\ last.pair = 0
        /\ sessions = last.before.sessions

C10_UnknownIdRejected ==
    /\ Handled
    /\ last.req.sid # NoSessionId
    /\ ~last.known
    /\ ~MethodIsInitialize(last.req)
    /\ last.response.status = 404
    /\ DOMAIN sessions # {}

\* ids that were keys of the table and are none any more: since only
\* disposeSession deletes a key, the sessions that were torn down
TornDown(snap) == snap.everIds \ DOMAIN snap.sessions
PairIndexes == 1..Len(pairs)

C12_RemovedSessionWasClosed ==
    \A p \in PairIndexes :
        (pairs[p].initialized /\ ~Lookup(sessions, pairs[p].sessionId)) => pairs[p].closed

C12_TransportCloseDisposed ==
    /\ last.kind = "closed"
    /\ last.disposed
    /\ pairs[last.pair].closed
    /\ ~Lookup(sessions, last.req.sid)
    /\ DOMAIN sessions # {}

\* C27: whatever callbacks fire in the teardown of a session, close() is
\* invoked on its McpServer at most once, and exactly once when its entry
\* was removed; the step that disposes of a session takes exactly that entry
\* out of the table.
C27_TornDownOnce ==
    /\ \A p \in PairIndexes :
          /\ pairs[p].closes <= 1
          /\ pairs[p].closes = 1 <=> pairs[p].closed
          /\ pairs[p].closes = 1 => ~Lookup(sessions, pairs[p].sessionId)
    /\ last.disposed =>
          /\ pairs[last.pair].closes = 1
          /\ Lookup(last.before.sessions, last.req.sid)
          /\ sessions = Remove(last.before.sessions, last.req.sid)

C27_DeleteFiredAllTriggers ==
    /\ Handled
    /\ last.req.method = "DELETE"
    /\ last.disposed
    /\ pairs[last.pair].closes = 1
    /\ DOMAIN sessions # {}

\* C29: the step that handles an initialize request whose session id is a
\* key of the table creates no McpServer or transport, leaves the table as it
\* was and hands the request to the transport stored under that id; and a
\* step that creates a pair or adds a key to the table handles an initialize
\* POST for which the lookup found no session.
C29_InitializeOfKnownSessionCreatesNothing ==
    [][/\ (IsRequest' /\ MethodIsInitialize(last'.req) /\ last'.known) =>
            /\ Handled'
            /\ ~last'.created
            /\ last'.forwarded
            /\ last'.pair = sessions[last'.req.sid].transport
            /\ pairs' = pairs
            /\ sessions' = sessions
            /\ everIds' = everIds
       /\ (Len(pairs') > Len(pairs) \/ ~(DOMAIN sessions' \subseteq DOMAIN sessions)) =>
            /\ last'.created
            /\ ~last'.known
            /\ isInit(impl, last'.req)]_vars

C29_InitializeSentToExistingSession ==
    /\ Handled
    /\ last.req.body = "initialize"
    /\ last.known
    /\ last.forwarded
    /\ last.response = TransportError(400)
    /\ sessions = last.before.sessions
    /\ Cardinality(DOMAIN sessions) = 2

Created(p) == p \in PairIndexes
Registered(p) ==
    /\ Lookup(sessions, pairs[p].sessionId)
    /\ sessions[pairs[p].sessionId].transport = p

\* C28: every McpServer and transport pair created for an initialize request
\* is eventually a registered session or closed.
C28_CreatedPairRegisteredOrClosed ==
    \A p \in 1..MaxPairs :
        Created(p) ~> (Created(p) /\ (Registered(p) \/ pairs[p].closed))

\* C13: every session in the table is eventually removed from it, also when
\* its client sends nothing more.
C13_SessionsEventuallyRemoved ==
    \A id \in 1..MaxPairs : Lookup(sessions, id) ~> ~Lookup(sessions, id)

\* C14: no failure of a call made while a /mcp request is handled or a
\* session is disposed of escapes as an unhandled rejection (the claim asks,
\* on top of that, for the -32603 response to the request).
C14_NoFailureEscapes ==
    last.failure # "none" => ~last.unhandled

\* both variables are set to something other than the empty string
Configured(env) == ~Falsy(env.USER) /\ ~Falsy(env.PASS)
PresentsConfigured(env, h) ==
    /\ h.scheme = "Basic "
    /\ h.payload = Base64(Credentials(env.USER.value, env.PASS.value))

\* C15: in server.ts, with MCP_BASIC_USER and MCP_BASIC_PASS both configured
\* a request is let through to the /mcp handler exactly if its Authorization
\* header is "Basic " followed by base64 of the configured user, a colon and
\* the configured password, and is otherwise answered 401 with the session
\* table and the transports as they were; with either unset every request is
\* let through.
C15_GateAdmitsExactlyConfigured ==
    [][(gate' # gate /\ gate'.kind = "checked" /\ impl = Workflow) =>
          IF Configured(mcpBasic)
          THEN /\ gate'.next <=> PresentsConfigured(mcpBasic, gate'.header)
               /\ ~gate'.next => (gate'.status = 401 /\ sessions' = sessions
                                  /\ pairs' = pairs /\ last' = last)
          ELSE gate'.next]_vars

-----------------------------------------------------------------------------
(* Properties of request() *)

HasSettled == settled.slot # 0
NonSuccess == HasSettled /\ settled.response.status # 0 /\ ~IsOk(settled.response)

\* C16: a request() call whose timer fired before the call settled fails
\* with the abort error, which is neither the HTTP-status error nor the
\* failure of a fetch that could not reach the upstream.
C16_TimeoutFailsAsTimeout ==
    settled.timedOut =>
        /\ settled.outcome.kind = "error"
        /\ settled.outcome.name = "AbortError"
        /\ settled.outcome # FetchFailed
        /\ settled.outcome.status = 0

CallRequest(id) == [method |-> "POST", body |-> "call", sid |-> id, acceptable |-> TRUE]

\* C17: the step in which the timer of a call fires settles that call and
\* nothing else: every other call in flight, of the same session or of
\* another, is as it was, the router's state is unchanged, the session that
\* owns the call is still in the table with its McpServer open, and a call
\* request carrying its id is still dispatched to it.
C17_TimeoutCancelsOnlyItsCall ==
    [][(settled'.timedOut /\ ~settled.timedOut) =>
          /\ \A j \in Slots \ {settled'.slot} : requests'[j] = requests[j]
          /\ requests'[settled'.slot] = Free
          /\ UNCHANGED routerVars
          /\ Lookup(sessions', settled'.owner)
          /\ LET p == sessions'[settled'.owner].transport IN
             /\ ~pairs'[p].closed
             /\ handleRequest(sessions', pairs', nextId', p,
                              CallRequest(settled'.owner)).dispatched]_vars

C17_OtherCallOfSessionInFlight ==
    /\ settled.timedOut
    /\ \E j \in Slots : requests[j].phase = "fetching" /\ requests[j].owner = settled.owner
    /\ Lookup(sessions, settled.owner)

\* C18 as stated: a response with a non-success status makes request() throw
\* an error that carries the status code and, as its message, the parsed
\* JSON body, or the status text of the response when the body could not be
\* parsed; it never returns a result.
C18_FallsBackToStatusText ==
    NonSuccess =>
        /\ settled.outcome.kind = "error"
        /\ settled.outcome.name = "Error"
        /\ settled.outcome.status = settled.response.status
        /\ settled.outcome.message =
              IF settled.body \in {"object", "scalar"}
              THEN errorMessageOf(impl, settled.body)
              ELSE Message("statusText", settled.response.statusText)

\* C18, amended: as above, except that OmniscopeClient, when the status text
\* is empty, falls back to the message of the failure that kept the body from
\* being parsed.
C18_ErrorEmbedsStatusAndMessage ==
    NonSuccess =>
        /\ settled.outcome.kind = "error"
        /\ settled.outcome.name = "Error"
        /\ settled.outcome.status = settled.response.status
        /\ settled.outcome.message =
              IF settled.body \in {"object", "scalar"}
              THEN errorMessageOf(impl, settled.body)
              ELSE IF impl = Omniscope /\ settled.response.statusText = ""
              THEN (IF settled.timedOut THEN AbortMessage ELSE ParseMessage)
              ELSE Message("statusText", settled.response.statusText)

C18_EmptyStatusTextFallsBackToCause ==
    /\ NonSuccess
    /\ impl = Omniscope
    /\ settled.body = "unparseable"
    /\ settled.response.statusText = ""
    /\ settled.outcome.message = ParseMessage

\* C22: a request() call whose response has status 204 returns the empty
\* object: it settles as fetch resolves, with a result that is neither null
\* nor an error, and response.json() is never called on a 204 response.
C22_NoContentYieldsEmptyObject ==
    /\ (HasSettled /\ settled.response.status = 204) =>
          /\ settled.outcome = Returned("empty")
          /\ settled.phase = "fetching"
          /\ settled.body = "none"
    /\ \A i \in Slots :
          requests[i].phase \in {"readingBody", "readingErrorBody"} =>
              requests[i].response.status # 204

C22_NoContentReturned ==
    /\ HasSettled
    /\ impl = Workflow
    /\ settled.response.status = 204
    /\ settled.outcome.kind = "result"
    /\ \E j \in Slots : requests[j].phase = "readingBody"

\* the header each auth mode calls for
ExpectedAuthorization(auth) ==
    IF auth.type = "none" THEN NoHeader
    ELSE IF auth.type = "basic"
    THEN [scheme |-> "Basic ", value |-> Base64(Credentials(auth.username, auth.password))]
    ELSE [scheme |-> "Bearer ", value |-> Plain(auth.token)]

\* C19: every request() call in flight was sent with the Authorization
\* header of the configured auth mode: none for none, Basic with base64 of
\* username:password for basic, Bearer with the token for bearer, in both
\* clients.
C19_AuthorizationFollowsAuthMode ==
    \A i \in Slots :
        requests[i].phase # "free" =>
            requests[i].authorization = ExpectedAuthorization(config.auth)

-----------------------------------------------------------------------------
(* Properties of startup *)

AllDigits(str) == \A i \in 1..Len(str) : IsDigit(str[i])
\* the string is a decimal numeral (white space around it aside) above zero
DenotesPositiveNumber(str) ==
    LET numeral == Trim(str) IN
    numeral # <<>> /\ AllDigits(numeral) /\ DecimalValue(numeral) > 0

BaseUrlAbsentOrMalformed(env) == env.OMNI_BASE_URL.kind # "url"
TimeoutInvalid(env) ==
    ~Falsy(env.OMNI_TIMEOUT_MS) /\ ~DenotesPositiveNumber(env.OMNI_TIMEOUT_MS.value)

\* C25: a process whose OMNI_BASE_URL is absent or malformed, or whose
\* OMNI_TIMEOUT_MS is set to something that is no positive number, ends in
\* loadConfig and never listens; no request is served before loadConfig
\* returned; and the config of a listening process is what loadConfig
\* returned.
C25_InvalidEnvironmentEndsStartup ==
    /\ (startup.phase # "loading"
          /\ (BaseUrlAbsentOrMalformed(startup.env) \/ TimeoutInvalid(startup.env))) =>
          startup.phase = "exited"
    /\ probe # NoProbe => startup.phase = "listening"
    /\ startup.phase = "listening" => config = loadConfig(startup.env).value

-----------------------------------------------------------------------------
(* Properties of /healthz *)

HealthAnswered == hasHealthz(impl) /\ healthz.phase = "responded"
HealthPathSet == ~Falsy(healthProjectPath)
HealthPathValid == validateProjectPath(config, healthProjectPath.value).ok
SessionsAsRegistered ==
    /\ sessions = SecondSession.sessions
    /\ pairs = SecondSession.pairs
    /\ everIds = DOMAIN SecondSession.sessions
IsParameterRead(req) == req.method = "GET" /\ req.url.suffix = "/w/param"

\* C24 as stated: with a health-check project path configured the endpoint
\* performs exactly one upstream parameter read and answers ok if the read
\* succeeded and 500 if it failed; without one it answers the static success
\* payload and makes no upstream call; the session table is never touched.
C24_ExactlyOneReadWhenConfigured ==
    /\ HealthAnswered =>
          IF HealthPathSet
          THEN /\ Len(upstream) = 1
               /\ IsParameterRead(upstream[1])
               /\ healthz = IF outcome.kind = "result" THEN ReadOk ELSE ReadFailed
          ELSE healthz = StaticOk /\ upstream = <<>> /\ ~client.created
    /\ SessionsAsRegistered

\* C24, amended: with a health-check project path configured the endpoint
\* performs exactly one upstream parameter read when the path passes
\* validateProjectPath, answering ok if the read succeeded and 500 if it
\* failed, and answers 500 without any upstream call when the path does not
\* pass; the rest as stated.
C24_OneReadWhenPathValid ==
    /\ HealthAnswered =>
          IF HealthPathSet /\ HealthPathValid
          THEN /\ Len(upstream) = 1
               /\ IsParameterRead(upstream[1])
               /\ healthz = IF outcome.kind = "result" THEN ReadOk ELSE ReadFailed
          ELSE IF HealthPathSet
          THEN healthz = ReadFailed /\ upstream = <<>>
          ELSE healthz = StaticOk /\ upstream = <<>> /\ ~client.created
    /\ SessionsAsRegistered

C24_RejectedPathNotRead ==
    /\ HealthAnswered
    /\ HealthPathSet
    /\ StartsWith(healthProjectPath.value, <<"/">>)
    /\ ~HealthPathValid
    /\ healthz = ReadFailed
    /\ upstream = <<>>

-----------------------------------------------------------------------------
(* Properties of the scheduler task runner page *)

PollAnswered(jobId) == event'.kind = "pollResponse" /\ event'.job = jobId
RunEnded == pollTimer' = NoTimer /\ currentJobId' = NoJob /\ ~executeBtn'.disabled

\* the polling of a job ends in the status check of that job that failed or
\* reported a terminal status, and in no other step
PollingEndsOnlyInOwnCheck(jobId) ==
    (pollTimer = jobId /\ pollTimer' # jobId)
        => (PollAnswered(jobId) /\ event'.result \in TerminalStatuses \cup FailedChecks)

\* a status check that reports a terminal status stops the polling, clears the
\* current job and enables Execute
TerminalCheckEndsRun(jobId) ==
    (PollAnswered(jobId) /\ event'.result \in TerminalStatuses) => RunEnded

\* the job id an execute request returns is polled from then on
StartedJobPolled(jobId) ==
    (event'.kind = "executeResponse" /\ event'.job = jobId)
        => (jobId \in intervals' /\ pollTimer' = jobId /\ currentJobId' = jobId)

\* C26: a job whose id an execute request returned is polled until one of its
\* status checks reports COMPLETED, FAILED or CANCELLED; that check stops the
\* polling, clears the current job and enables Execute; the polling of a started
\* job stops in no other step than a status check of that job which reported a
\* terminal status or failed.
C26_PolledUntilTerminalOrFailedCheck ==
    [][\A jobId \in JobIds :
          /\ StartedJobPolled(jobId)
          /\ TerminalCheckEndsRun(jobId)
          /\ PollingEndsOnlyInOwnCheck(jobId)]_vars

\* the parts of C26 that hold of the page
C26_StartedPolledAndTerminalCheckEndsRun ==
    [][\A jobId \in JobIds : StartedJobPolled(jobId) /\ TerminalCheckEndsRun(jobId)]_vars

\* the answer to a status check of an earlier job leaves the timer, the current
\* job and the Execute button of a job started later as they are
StaleCheckLeavesLaterJob(jobId) ==
    (PollAnswered(jobId) /\ currentJobId > jobId)
        => UNCHANGED <<pollTimer, currentJobId, executeBtn>>

\* at most one interval timer runs, the one pollTimer holds, and it polls the
\* job that was started last
OneTimerForLatestJob ==
    /\ Cardinality(intervals) <= 1
    /\ intervals \subseteq {pollTimer}
    /\ pollTimer # NoTimer => pollTimer = Len(jobs) /\ pollTimer = currentJobId

\* C30: with status checks in flight at the same time, the answer to a check of
\* an earlier job never stops the timer, clears currentJobId or enables Execute
\* for a job started later; at most one polling timer runs at any time and it
\* polls the job started last.
C30_EarlierJobsCheckLeavesLaterJob ==
    [][/\ \A jobId \in JobIds : StaleCheckLeavesLaterJob(jobId)
       /\ OneTimerForLatestJob']_vars

\* a status check of job 1 is answered while job 2 is the current job
C30_StaleCheckAnswered ==
    /\ event.kind = "pollResponse"
    /\ event.job = 1
    /\ Len(jobs) = 2

====
